---- MODULE Spec2Model ----
(***************************************************************************)
(* Data synchronization engine of the stock screener backend: the          *)
(* checkpointed bulk backfill (populate_all_stocks), the retry queue       *)
(* processor (retry_failed_tickers), the daily delta sync                  *)
(* (daily_delta_sync) and the market calendar they depend on.              *)
(*                                                                         *)
(* Dates are proleptic Gregorian ordinals (datetime.date.toordinal()).     *)
(* Ticker symbols are the numbers 1..NumTickers; tickers.id is a surrogate *)
(* key in bijection with the unique symbol, so price rows are keyed by the *)
(* symbol directly.                                                        *)
(***************************************************************************)
EXTENDS Integers, Sequences, FiniteSets, TLC

(***************************************************************************)
(* Bounds of the model.                                                    *)
(***************************************************************************)
\* size of the upstream ticker universe
NumTickers == 3
\* tickers per batch (100 in the jobs, scaled down)
BatchSize == 2
\* number of calendar days the clock may advance past FirstDay
MaxDays == 3
\* distinct OHLCV payloads the provider can return for one (ticker, date)
MaxVal == 2
\* the longest tracked-ticker list whose weekly segments are computed
MaxList == 16

(***************************************************************************)
(* Calendar arithmetic on date ordinals (datetime.date).                   *)
(***************************************************************************)
IsLeap(y) == (y % 4 = 0) /\ ((y % 100 # 0) \/ (y % 400 = 0))

DaysInMonth(y, m) ==
    IF m = 2 THEN (IF IsLeap(y) THEN 29 ELSE 28)
    ELSE IF m \in {4, 6, 9, 11} THEN 30 ELSE 31

DaysBeforeYear(y) ==
    (y - 1) * 365 + ((y - 1) \div 4) - ((y - 1) \div 100) + ((y - 1) \div 400)

RECURSIVE DaysBeforeMonth(_, _)
DaysBeforeMonth(y, m) ==
    IF m = 1 THEN 0 ELSE DaysBeforeMonth(y, m - 1) + DaysInMonth(y, m - 1)

\* date(y, m, d).toordinal()
ymd2ord(y, m, d) == DaysBeforeYear(y) + DaysBeforeMonth(y, m) + d

\* date.fromordinal(n).year
YearOf(n) ==
    LET g == (n - 1) \div 146097
        r == (n - 1) % 146097
        y0 == g * 400 + (r \div 365) + 1
    IN  IF ymd2ord(y0, 1, 1) <= n THEN y0
        ELSE IF ymd2ord(y0 - 1, 1, 1) <= n THEN y0 - 1 ELSE y0 - 2

\* date.weekday(): Monday = 0 .. Sunday = 6
weekday(n) == (n + 6) % 7

\* pandas.tseries.holiday.nearest_workday: Saturday -> Friday, Sunday -> Monday
nearest_workday(n) ==
    IF weekday(n) = 5 THEN n - 1 ELSE IF weekday(n) = 6 THEN n + 1 ELSE n

\* relativedelta(weekday=w): the first day on or after n whose weekday is w
OnOrAfterWeekday(n, w) == n + ((w - weekday(n)) % 7)

\* dateutil.easter.easter(y), western method: Easter Sunday of year y
EasterSunday(y) ==
    LET g == y % 19
        c == y \div 100
        h == (c - (c \div 4) - ((8 * c + 13) \div 25) + 19 * g + 15) % 30
        i == h - (h \div 28) * (1 - (h \div 28) * (29 \div (h + 1)) * ((21 - g) \div 11))
        j == (y + (y \div 4) + i + 2 - c + (c \div 4)) % 7
        p == i - j
        d == 1 + ((p + 27 + ((p + 6) \div 40)) % 31)
        m == 3 + ((p + 26) \div 30)
    IN  ymd2ord(y, m, d)

\* USMarketCalendar.rules applied to the reference dates of year y
HolidaysOfYear(y) ==
    { nearest_workday(ymd2ord(y, 1, 1)),
      OnOrAfterWeekday(ymd2ord(y, 1, 1) + 21, 0),
      OnOrAfterWeekday(ymd2ord(y, 2, 1) + 21, 0),
      EasterSunday(y) - 2,
      OnOrAfterWeekday(ymd2ord(y, 5, 31) - 7, 0),
      nearest_workday(ymd2ord(y, 6, 19)),
      nearest_workday(ymd2ord(y, 7, 4)),
      OnOrAfterWeekday(ymd2ord(y, 9, 1) + 7, 0),
      OnOrAfterWeekday(ymd2ord(y, 11, 1) + 28, 3),
      nearest_workday(ymd2ord(y, 12, 25)) }

\* cal.holidays(start=d, end=d) is non-empty
IsHoliday(n) ==
    LET y == YearOf(n)
    IN  n \in (HolidaysOfYear(y - 1) \cup HolidaysOfYear(y) \cup HolidaysOfYear(y + 1))

is_trading_day(check_date) ==
    IF weekday(check_date) >= 5 THEN FALSE ELSE ~IsHoliday(check_date)

\* a slip: the reference date is returned without the walk
get_last_trading_day_no_walk(reference_date) == reference_date

\* lines 56-63: back one day at a time until is_trading_day holds
RECURSIVE get_last_trading_day(_)
get_last_trading_day(reference_date) ==
    IF is_trading_day(reference_date) THEN reference_date
    ELSE get_last_trading_day(reference_date - 1)


(***************************************************************************)
(* Values, tables and the provider.                                        *)
(***************************************************************************)
\* the clock starts on Wednesday 2024-07-03; 2024-07-04 is a holiday
FirstDay == ymd2ord(2024, 7, 3)
DateWindow == FirstDay .. (FirstDay + MaxDays)
Universe == 1 .. NumTickers
Vals == 1 .. MaxVal
\* float('nan') in a data frame cell, and SQL NULL
NaN == 0 - 1
None == 0 - 2

Min(a, b) == IF a < b THEN a ELSE b
MaxOf(S) == CHOOSE x \in S : \A y \in S : y <= x
MinOf(S) == CHOOSE x \in S : \A y \in S : x <= y
SeqSet(s) == { s[i] : i \in DOMAIN s }
Orders(S) == { s \in [1 .. Cardinality(S) -> S] : \A i, j \in DOMAIN s : i # j => s[i] # s[j] }

\* [lst[i:i+batch_size] for i in range(0, len(lst), batch_size)], numbered from 1
batches(lst) ==
    [ n \in 1 .. ((Len(lst) + BatchSize - 1) \div BatchSize) |->
        SubSeq(lst, (n - 1) * BatchSize + 1, Min(n * BatchSize, Len(lst))) ]

\* get_all_us_tickers(): [] on any error, else list(set(...)): the iteration
\* order of a set of str is one fixed order when the interpreter's hash seed is
\* fixed, and any order when it is randomized per process
get_all_us_tickers(randomized) ==
    (IF randomized THEN Orders(Universe) ELSE { [ i \in 1 .. NumTickers |-> i ] }) \cup { <<>> }

\* one row of a provider data frame; Open = High = Low = Close = Volume = v
\* unless stated otherwise
Bar(t, d, v) == [ ticker |-> t, date |-> d, Open |-> v, Close |-> v, Volume |-> v ]

\* the trading days inside the model's window that a request [start, end] covers
ProviderDates(start_date, end_date) ==
    { d \in DateWindow : start_date <= d /\ d <= end_date /\ is_trading_day(d) }

\* YFinanceProvider.get_batch_historical_prices: None/empty (here {}) on any
\* error, else long-format rows without NaN prices and with integer volume,
\* for some of the requested tickers and some of the requested days
get_batch_historical_prices(tks, start_date, end_date) ==
    { { Bar(t, d, v) : t \in S, d \in D } :
        S \in SUBSET SeqSet(tks), D \in SUBSET ProviderDates(start_date, end_date), v \in Vals }

\* YFinanceProvider.get_historical_prices: None (here {}) on any error, else
\* the rows of one ticker indexed by date; cells are not cleaned, so a row
\* may carry a NaN volume
get_historical_prices(t, start_date, end_date) ==
    { { [ Bar(t, d, v) EXCEPT !.Volume = IF d \in B THEN NaN ELSE v ] : d \in D } :
        D \in SUBSET ProviderDates(start_date, end_date), v \in Vals,
        B \in { {} } \cup { {b} : b \in ProviderDates(start_date, end_date) } }

\* YFinanceProvider.get_batch_historical_prices, lines 178-180 and 217-224:
\* _apply_jitter runs after a batch that gave data, not after an empty
\* answer or an upstream error
batch_jitter(frame) == frame # {}

\* YFinanceProvider.get_historical_prices, lines 115-149: no call of _apply_jitter
single_jitter(frame) == FALSE

\* a slip: ON CONFLICT DO NOTHING, the stored row of the same key stays
on_conflict_do_nothing(table, rows) ==
    table \cup { n \in rows : ~ \E r \in table : n.ticker_id = r.ticker_id /\ n.date = r.date }

\* INSERT ... ON CONFLICT (ticker_id, date) DO UPDATE SET ... = excluded....
on_conflict_do_update(table, rows) ==
    { r \in table : ~ \E n \in rows : n.ticker_id = r.ticker_id /\ n.date = r.date } \cup rows

\* the dict built for each row of the batch frame in _insert_batch_data
insert_row(row) ==
    [ ticker_id |-> row.ticker,
      date      |-> row.date,
      open      |-> IF row.Open # NaN THEN row.Open ELSE None,
      close     |-> row.Close,
      volume    |-> row.Volume ]

\* rows_to_upsert of _insert_batch_data, given the symbols of ticker_map
rows_to_upsert(frame, ticker_map) ==
    { insert_row(row) : row \in { x \in frame : x.ticker \in ticker_map } }

\* _insert_batch_data(db, df): the Ticker table and the price table it commits
insert_batch_tickers(tk, frame) == tk \cup { row.ticker : row \in frame }
insert_batch_prices(tk, table, frame) ==
    on_conflict_do_update(table, rows_to_upsert(frame, insert_batch_tickers(tk, frame)))

(***************************************************************************)
(* State.                                                                  *)
(***************************************************************************)
VARIABLES
    hash_randomization,      \* whether str hashes differ from process to process
    today,                   \* datetime.now().date()
    tickers,                 \* Ticker table: the symbols that have a row
    daily_ohlcv,             \* DailyOHLCV table
    population_progress,     \* PopulationProgress table, keyed by batch_number
    failed_tickers,          \* FailedTicker table
    next_failed_id,          \* the autoincrement of failed_tickers.id
    job,                     \* the job function that is running, or "idle"
    pc,                      \* its position
    resume,                  \* populate_all_stocks: the resume argument
    all_tickers,             \* populate_all_stocks: all_tickers
    completed_batch_numbers, \* populate_all_stocks: completed_batch_numbers
    batch_num,               \* the loop variable of the batch loops
    df,                      \* the frame the provider returned last
    stats,                   \* the stats dict of the running job
    failed,                  \* retry_failed_tickers: ids selected and not yet attempted
    cur,                     \* retry_failed_tickers: id of failed_ticker
    session,                 \* retry_failed_tickers: the price objects db.merge() put in its Session
    ticker_list,             \* daily_delta_sync: ticker_list
    delta_start,             \* daily_delta_sync: delta_start
    delta_missed,            \* history: (ticker, day) a delta batch asked for and got no data
    cache,                   \* the Redis keys and their values
    stock_fundamentals,      \* StockFundamental table, keyed by ticker
    slept,                   \* a jitter sleep followed the provider's last upstream request
    provider_calls,          \* upstream calls issued by the current or last run
    result                   \* what the last returned job returned

clockv == << hash_randomization, today >>
dbv == << tickers, daily_ohlcv, population_progress, failed_tickers, next_failed_id >>
ctlv == << job, pc >>
popv == << resume, all_tickers, completed_batch_numbers >>
retv == << failed, cur, session >>
deltav == << ticker_list, delta_start, delta_missed >>
cachev == << cache, stock_fundamentals >>
vars == << hash_randomization, today, tickers, daily_ohlcv, population_progress, failed_tickers,
           next_failed_id, job, pc, resume, all_tickers, completed_batch_numbers,
           batch_num, df, stats, failed, cur, session, ticker_list, delta_start, delta_missed,
           cache, stock_fundamentals, slept, provider_calls, result >>

NoStats == [ none |-> 0 ]
\* no job has returned since the last job began
NoResult == [ job |-> "none" ]

\* everything but the interpreter's hash seed setting
InitState ==
    /\ today = FirstDay
    /\ tickers = {}
    /\ daily_ohlcv = {}
    /\ population_progress = << >>
    /\ failed_tickers = {}
    /\ next_failed_id = 1
    /\ job = "idle"
    /\ pc = "idle"
    /\ resume = FALSE
    /\ all_tickers = << >>
    /\ completed_batch_numbers = {}
    /\ batch_num = 0
    /\ df = {}
    /\ stats = NoStats
    /\ failed = {}
    /\ cur = 0
    /\ session = {}
    /\ ticker_list = << >>
    /\ delta_start = None
    /\ delta_missed = {}
    /\ cache = {}
    /\ stock_fundamentals = {}
    /\ slept = TRUE
    /\ provider_calls = {}
    /\ result = NoResult

\* the jobs run with a fixed hash seed
Init == hash_randomization = FALSE /\ InitState

\* the locals of a job function, gone when it returns or the process ends
LocalsReset ==
    /\ job' = "idle"
    /\ pc' = "idle"
    /\ resume' = FALSE
    /\ all_tickers' = << >>
    /\ completed_batch_numbers' = {}
    /\ batch_num' = 0
    /\ df' = {}
    /\ stats' = NoStats
    /\ failed' = {}
    /\ cur' = 0
    /\ session' = {}
    /\ ticker_list' = << >>
    /\ delta_start' = None
    /\ slept' = TRUE

(***************************************************************************)
(* populate_all_stocks(resume)                                             *)
(***************************************************************************)
ZeroPopulateStats ==
    [ total_tickers |-> 0, total_batches |-> 0, completed_batches |-> 0,
      failed_batches |-> 0, records_inserted |-> 0, failed_tickers |-> 0 ]

\* what a returning populate_all_stocks leaves to its caller, with the
\* checkpoints it found completed and whether the batch loop ran to its end
PopulateReturn(st, finished) ==
    /\ result' = [ job |-> "populate", resume |-> resume, stats |-> st,
                   completed_at_start |-> completed_batch_numbers,
                   calls |-> provider_calls, finished |-> finished ]
    /\ provider_calls' = {}
    /\ LocalsReset
    /\ UNCHANGED << delta_missed, cachev >>

\* db.query(PopulationProgress).filter(status == 'completed') -> batch numbers
CompletedCheckpoints(progress) ==
    { b \in DOMAIN progress : progress[b].status = "completed" }

\* a slip: every batch that has a checkpoint is skipped
SkippedBatches_any_status(r, progress) == IF r THEN DOMAIN progress ELSE {}

\* the completed_batch_numbers the job skips, given the resume flag
SkippedBatches(r, progress) == IF r THEN CompletedCheckpoints(progress) ELSE {}

\* end_date and start_date of the bulk range: five years up to the last trading day
BulkEnd == get_last_trading_day(today)
BulkStart == BulkEnd - 365 * 5

\* lines 29-93: fetch the universe, partition it, read the checkpoints
populate_begin ==
    /\ job = "idle"
    /\ \E r \in BOOLEAN, lst \in get_all_us_tickers(hash_randomization) :
        /\ provider_calls' = {}
        /\ IF lst = << >>
           THEN /\ result' = [ job |-> "populate", resume |-> r, stats |-> ZeroPopulateStats,
                               completed_at_start |-> {}, calls |-> {}, finished |-> FALSE ]
                /\ UNCHANGED << ctlv, popv, batch_num, stats >>
           ELSE /\ job' = "populate"
                /\ pc' = "p_loop"
                /\ resume' = r
                /\ all_tickers' = lst
                /\ completed_batch_numbers' = SkippedBatches(r, population_progress)
                /\ batch_num' = 1
                /\ stats' = [ ZeroPopulateStats EXCEPT !.total_tickers = Len(lst),
                                                       !.total_batches = Len(batches(lst)) ]
                /\ result' = NoResult
    /\ UNCHANGED << clockv, dbv, df, retv, deltav, cachev, slept >>

\* a slip: db.merge() instead of db.add(), an existing row is overwritten
add_progress_never_raises(b, progress) == FALSE

\* lines 106-113, db.add(progress) and db.commit(): the INSERT raises
\* IntegrityError when a row with that batch_number (the primary key) exists
add_progress_raises(b, progress) == b \in DOMAIN progress

\* lines 95-113: end of the loop, skip of a completed batch, or the creation
\* of the checkpoint row; batch_number is the primary key, so adding a second
\* row for it raises at db.commit(), outside the per-batch try
populate_loop ==
    /\ job = "populate" /\ pc = "p_loop"
    /\ IF batch_num > Len(batches(all_tickers))
       THEN /\ PopulateReturn(stats, TRUE)
            /\ UNCHANGED << clockv, dbv >>
       ELSE IF batch_num \in completed_batch_numbers
       THEN /\ stats' = [ stats EXCEPT !.completed_batches = @ + 1 ]
            /\ batch_num' = batch_num + 1
            /\ UNCHANGED << clockv, dbv, ctlv, popv, df, retv, deltav, cachev, slept, provider_calls, result >>
       ELSE IF add_progress_raises(batch_num, population_progress)
       THEN /\ PopulateReturn(stats, FALSE)
            /\ UNCHANGED << clockv, dbv >>
       ELSE /\ population_progress' =
                [ b \in DOMAIN population_progress \cup { batch_num } |->
                    IF b = batch_num
                    THEN [ status |-> "in_progress", records_inserted |-> 0,
                           ticker_list |-> batches(all_tickers)[batch_num] ]
                    ELSE population_progress[b] ]
            /\ pc' = "p_fetch"
            /\ UNCHANGED << clockv, tickers, daily_ohlcv, failed_tickers, next_failed_id, job,
                            popv, batch_num, df, stats, retv, deltav, cachev, slept, provider_calls, result >>

\* a slip: a batch counts as failed as soon as one of its tickers has no row
no_data_for_a_ticker(batch, frame) ==
    \E t \in SeqSet(batch) : ~ \E row \in frame : row.ticker = t

\* line 124: df is None or df.empty
no_data(batch, frame) == frame = {}

\* lines 117-145: the provider's batch call in bulk mode; without data the
\* checkpoint is marked failed and committed, with data _insert_batch_data
\* commits the new Ticker rows and the price rows
populate_fetch ==
    /\ job = "populate" /\ pc = "p_fetch"
    /\ \E frame \in get_batch_historical_prices(batches(all_tickers)[batch_num], BulkStart, BulkEnd) :
        /\ df' = frame
        /\ slept' = batch_jitter(frame)
        /\ IF no_data(batches(all_tickers)[batch_num], frame)
           THEN /\ population_progress' =
                    [ population_progress EXCEPT ![batch_num].status = "failed" ]
                /\ stats' = [ stats EXCEPT !.failed_batches = @ + 1 ]
                /\ pc' = "p_enqueue"
                /\ UNCHANGED << tickers, daily_ohlcv >>
           ELSE /\ tickers' = insert_batch_tickers(tickers, frame)
                /\ daily_ohlcv' = insert_batch_prices(tickers, daily_ohlcv, frame)
                /\ pc' = "p_complete"
                /\ UNCHANGED << population_progress, stats >>
    /\ provider_calls' = provider_calls \cup
          { [ fn |-> "get_batch_historical_prices", key |-> batch_num, is_bulk_load |-> TRUE,
              start_date |-> BulkStart, end_date |-> BulkEnd ] }
    /\ UNCHANGED << clockv, failed_tickers, next_failed_id, job, popv, batch_num, retv,
                    deltav, cachev, result >>

\* a slip: only the first ticker of the batch is enqueued
NewFailedTickers_first_only(batch, num, first_id) ==
    { [ id |-> first_id, ticker |-> batch[1], batch_number |-> num,
        retry_count |-> 0, status |-> "pending" ] }

\* the FailedTicker rows added for a batch: one per ticker, with the column
\* defaults retry_count = 0 and status = 'pending'
NewFailedTickers(batch, num, first_id) ==
    { [ id |-> first_id + i - 1, ticker |-> batch[i], batch_number |-> num,
        retry_count |-> 0, status |-> "pending" ] : i \in DOMAIN batch }

\* a slip: the failed batch is counted, not its tickers
count_failed_tickers_by_batch(st, batch) == [ st EXCEPT !.failed_tickers = @ + 1 ]

\* lines 143 and 185: stats['failed_tickers'] += len(batch)
count_failed_tickers(st, batch) == [ st EXCEPT !.failed_tickers = @ + Len(batch) ]

\* lines 132-142: every ticker of the batch goes to the retry queue, then continue
populate_enqueue ==
    /\ job = "populate" /\ pc = "p_enqueue"
    /\ failed_tickers' = failed_tickers \cup
          NewFailedTickers(batches(all_tickers)[batch_num], batch_num, next_failed_id)
    /\ next_failed_id' = next_failed_id + Len(batches(all_tickers)[batch_num])
    /\ stats' = count_failed_tickers(stats, batches(all_tickers)[batch_num])
    /\ batch_num' = batch_num + 1
    /\ df' = {}
    /\ pc' = "p_loop"
    /\ UNCHANGED << clockv, tickers, daily_ohlcv, population_progress, job, popv, retv,
                    deltav, cachev, slept, provider_calls, result >>

\* lines 147-154: the checkpoint is marked completed with the row count
populate_mark_completed ==
    /\ job = "populate" /\ pc = "p_complete"
    /\ LET records_inserted == Cardinality(rows_to_upsert(df, tickers))
       IN  /\ population_progress' =
                [ population_progress EXCEPT ![batch_num].status = "completed",
                                             ![batch_num].records_inserted = records_inserted ]
           /\ stats' = [ stats EXCEPT !.completed_batches = @ + 1,
                                      !.records_inserted = @ + records_inserted ]
    /\ batch_num' = batch_num + 1
    /\ df' = {}
    /\ pc' = "p_loop"
    /\ UNCHANGED << clockv, tickers, daily_ohlcv, failed_tickers, next_failed_id, job, popv,
                    retv, deltav, cachev, slept, provider_calls, result >>

(***************************************************************************)
(* retry_failed_tickers()                                                  *)
(***************************************************************************)
\* the retry cap of the query filter and of the except branch
MaxRetries == 3

ZeroRetryStats ==
    [ total_failed |-> 0, retried |-> 0, succeeded |-> 0, permanent_failures |-> 0 ]

\* a slip: the query filter without the status
RetrySelected_any_status(e) == e.retry_count < MaxRetries

\* a slip: the query filter without the retry cap
RetrySelected_no_cap(e) == e.status = "pending"

\* the filter of the FailedTicker query: status == 'pending', retry_count < 3
RetrySelected(e) == e.status = "pending" /\ e.retry_count < MaxRetries

\* the DailyOHLCV object built for one row of the single-ticker frame;
\* float() keeps a NaN, int() of a NaN raises (see RaisingDates)
retry_row(row) ==
    [ ticker_id |-> row.ticker, date |-> row.date, open |-> row.Open,
      close |-> row.Close, volume |-> row.Volume ]

\* db.merge(obj) for each object: update the row with that primary key or insert it
merge(table, objs) ==
    { r \in table : ~ \E o \in objs : o.ticker_id = r.ticker_id /\ o.date = r.date } \cup objs

\* the index dates whose row makes int(row['Volume']) raise ValueError
RaisingDates(frame) == { row.date : row \in { x \in frame : x.Volume = NaN } }

\* the rows iterrows() reaches before the first raising row (index order)
RowsBeforeRaise(frame) ==
    { row \in frame : \A b \in RaisingDates(frame) : row.date < b }

\* the status the except branch gives an entry whose attempt raised
StatusAfterException(retry_count) ==
    IF retry_count >= MaxRetries THEN "permanent_failure" ELSE "pending"

\* the status the "no data" branch gives an entry
StatusAfterNoData(retry_count) == "pending"

Entry(id) == CHOOSE e \in failed_tickers : e.id = id
UpdateEntry(id, new) == (failed_tickers \ { Entry(id) }) \cup { new }

RetryReturn(st) ==
    /\ result' = [ job |-> "retry", stats |-> st, calls |-> provider_calls ]
    /\ provider_calls' = {}
    /\ LocalsReset
    /\ UNCHANGED << delta_missed, cachev >>

\* lines 289-308: select the entries to retry
retry_begin ==
    /\ job = "idle"
    /\ LET sel == { e.id : e \in { x \in failed_tickers : RetrySelected(x) } }
       IN  /\ provider_calls' = {}
           /\ IF sel = {}
              THEN /\ result' = [ job |-> "retry", stats |-> ZeroRetryStats, calls |-> {} ]
                   /\ UNCHANGED << ctlv, stats, retv >>
              ELSE /\ job' = "retry"
                   /\ pc' = "r_loop"
                   /\ failed' = sel
                   /\ stats' = [ ZeroRetryStats EXCEPT !.total_failed = Cardinality(sel) ]
                   /\ result' = NoResult
                   /\ UNCHANGED << cur, session >>
    /\ UNCHANGED << clockv, dbv, popv, batch_num, df, deltav, cachev, slept >>

\* lines 309-317: next entry (the query has no ORDER BY): retrying, one more attempt
retry_loop ==
    /\ job = "retry" /\ pc = "r_loop"
    /\ IF failed = {}
       THEN /\ RetryReturn(stats)
            /\ UNCHANGED << clockv, dbv >>
       ELSE \E id \in failed :
            /\ failed_tickers' = UpdateEntry(id,
                  [ Entry(id) EXCEPT !.status = "retrying", !.retry_count = @ + 1 ])
            /\ failed' = failed \ { id }
            /\ cur' = id
            /\ pc' = "r_fetch"
            /\ UNCHANGED << clockv, session, tickers, daily_ohlcv, population_progress, next_failed_id,
                            job, popv, batch_num, df, stats, deltav, cachev, slept, provider_calls, result >>

\* the provider call record of one single-symbol fetch
SingleCall(t) ==
    [ fn |-> "get_historical_prices", key |-> t, is_bulk_load |-> FALSE,
      start_date |-> BulkStart, end_date |-> BulkEnd ]

\* lines 321-352: the single-symbol provider call and what follows it:
\*  - no data (323-328): the entry goes back to pending; continue
\*  - data (330-352): get or create the Ticker row, merge every row, commit
\*  - a row raises (340-350, then 361-373): the except branch sets the status
\*    by the retry count and commits, which also commits the Ticker row and
\*    the price rows the session had pending
retry_fetch ==
    /\ job = "retry" /\ pc = "r_fetch"
    /\ \E frame \in get_historical_prices(Entry(cur).ticker, BulkStart, BulkEnd) :
        /\ df' = frame
        /\ slept' = single_jitter(frame)
        /\ IF frame = {}
           THEN /\ failed_tickers' = UpdateEntry(cur,
                      [ Entry(cur) EXCEPT !.status = StatusAfterNoData(Entry(cur).retry_count) ])
                /\ cur' = 0
                /\ pc' = "r_loop"
                /\ UNCHANGED << tickers, daily_ohlcv, stats >>
           ELSE IF RaisingDates(frame) = {}
           THEN /\ tickers' = tickers \cup { Entry(cur).ticker }
                /\ daily_ohlcv' = merge(daily_ohlcv, { retry_row(row) : row \in frame })
                /\ pc' = "r_delete"
                /\ UNCHANGED << failed_tickers, stats, cur >>
           ELSE /\ tickers' = tickers \cup { Entry(cur).ticker }
                /\ daily_ohlcv' = merge(daily_ohlcv, { retry_row(row) : row \in RowsBeforeRaise(frame) })
                /\ failed_tickers' = UpdateEntry(cur,
                      [ Entry(cur) EXCEPT !.status = StatusAfterException(Entry(cur).retry_count) ])
                /\ stats' = [ stats EXCEPT !.retried = @ + 1,
                                !.permanent_failures =
                                    IF Entry(cur).retry_count >= MaxRetries THEN @ + 1 ELSE @ ]
                /\ cur' = 0
                /\ pc' = "r_loop"
    /\ provider_calls' = provider_calls \cup { SingleCall(Entry(cur).ticker) }
    /\ UNCHANGED << clockv, population_progress, next_failed_id, job, popv, batch_num, failed, session,
                    deltav, cachev, result >>

\* lines 354-358 and 373: the entry leaves the queue
retry_delete ==
    /\ job = "retry" /\ pc = "r_delete"
    /\ failed_tickers' = failed_tickers \ { Entry(cur) }
    /\ stats' = [ stats EXCEPT !.succeeded = @ + 1, !.retried = @ + 1 ]
    /\ cur' = 0
    /\ df' = {}
    /\ pc' = "r_loop"
    /\ UNCHANGED << clockv, tickers, daily_ohlcv, population_progress, next_failed_id, job, popv,
                    batch_num, failed, session, deltav, cachev, slept, provider_calls, result >>

(***************************************************************************)
(* daily_delta_sync()                                                      *)
(***************************************************************************)
ZeroDeltaStats ==
    [ total_tickers |-> 0, updated |-> 0, failed |-> 0, no_update_needed |-> 0,
      records_inserted |-> 0 ]

\* db.query(func.max(DailyOHLCV.date)).scalar(): None on an empty table
last_db_date(table) == IF table = {} THEN None ELSE MaxOf({ r.date : r \in table })

\* the dict built for each row of the delta frame in _upsert_delta_data
delta_row(row) ==
    [ ticker_id |-> row.ticker, date |-> row.date, open |-> row.Open,
      close |-> row.Close, volume |-> row.Volume ]

\* a slip: the rows of tickers without a Ticker row are kept
delta_rows_to_upsert_keeps_unknown(frame, ticker_map) ==
    { delta_row(row) : row \in frame }

\* rows_to_upsert of _upsert_delta_data: rows of unknown tickers are dropped
delta_rows_to_upsert(frame, ticker_map) ==
    { delta_row(row) : row \in { x \in frame : x.ticker \in ticker_map } }

\* _upsert_delta_data(db, df): the price table it commits
upsert_delta_data(tk, table, frame) ==
    on_conflict_do_update(table, delta_rows_to_upsert(frame, tk))

\* delta_end of a delta run (line 67); delta_start (line 66) is computed once,
\* before the batch loop, and kept in the variable of that name
delta_end == get_last_trading_day(today)

\* a slip: the request starts on the latest stored day itself
delta_start_same_day(last) == last

\* line 66: delta_start = last_db_date + timedelta(days=1)
delta_start_after(last) == last + 1

\* a slip: the comparison with the last trading day is left out
DeltaNeeded_no_date_check(day, table) ==
    /\ is_trading_day(day)
    /\ last_db_date(table) # None

\* a slip: the trading-day check is left out
DeltaNeeded_any_day(day, table) ==
    /\ last_db_date(table) # None
    /\ ~ (last_db_date(table) >= get_last_trading_day(day))

\* lines 40-63: the preconditions; TRUE when the job goes on to fetch
DeltaNeeded(day, table) ==
    /\ is_trading_day(day)
    /\ last_db_date(table) # None
    /\ ~ (last_db_date(table) >= get_last_trading_day(day))

\* CacheService.clear_pattern, lines 46-55: the keys of the pattern's prefix
\* are deleted; a Redis error is caught and leaves the keys
clear_pattern(c, kind, ok) == IF ok THEN { e \in c : e.kind # kind } ELSE c

\* CacheService.delete, lines 37-44
cache_delete(c, kind, of, ok) ==
    IF ok THEN { e \in c : ~ ( e.kind = kind /\ e.of = of ) } ELSE c

\* CacheService.set, lines 26-35
cache_set(c, kind, of, value, ok) ==
    IF ok
    THEN { e \in c : ~ ( e.kind = kind /\ e.of = of ) }
         \cup { [ kind |-> kind, of |-> of, value |-> value ] }
    ELSE c

\* CacheService.get, lines 15-24: None on a miss, on a falsy value and on a
\* Redis error; every caller tests the result for truth, and the empty frame
\* stands for all the falsy results
cache_get(c, kind, of, ok) ==
    IF ok /\ \E e \in c : e.kind = kind /\ e.of = of
    THEN ( CHOOSE e \in c : e.kind = kind /\ e.of = of ).value
    ELSE {}

DeltaReturn(st) ==
    /\ result' = [ job |-> "delta", stats |-> st, calls |-> provider_calls ]
    /\ provider_calls' = {}
    /\ LocalsReset

\* lines 23-90: preconditions, the tracked tickers, the batches
delta_begin ==
    /\ job = "idle"
    /\ provider_calls' = {}
    /\ IF ~ DeltaNeeded(today, daily_ohlcv)
       THEN /\ result' = [ job |-> "delta", stats |-> ZeroDeltaStats, calls |-> {} ]
            /\ UNCHANGED << ctlv, batch_num, stats, ticker_list, delta_start >>
       ELSE IF tickers = {}
       THEN /\ result' = [ job |-> "delta", stats |-> ZeroDeltaStats, calls |-> {} ]
            /\ UNCHANGED << ctlv, batch_num, stats, ticker_list, delta_start >>
       ELSE \E lst \in Orders(tickers) :
            /\ job' = "delta"
            /\ pc' = "d_fetch"
            /\ ticker_list' = lst
            /\ delta_start' = delta_start_after(last_db_date(daily_ohlcv))
            /\ batch_num' = 1
            /\ stats' = [ ZeroDeltaStats EXCEPT !.total_tickers = Len(lst) ]
            /\ result' = NoResult
    /\ UNCHANGED << clockv, dbv, popv, df, retv, delta_missed, cachev, slept >>

\* lines 93-139: one batch: the provider's batch call in daily mode; no data
\* is counted, data is upserted and committed; after the last batch the two
\* cache patterns are cleared and the job returns its stats
delta_fetch ==
    /\ job = "delta" /\ pc = "d_fetch"
    /\ IF batch_num > Len(batches(ticker_list))
       THEN /\ \E ok1 \in BOOLEAN, ok2 \in BOOLEAN :
                cache' = clear_pattern(clear_pattern(cache, "prices", ok1), "stock", ok2)
            /\ DeltaReturn(stats)
            /\ UNCHANGED << clockv, dbv, delta_missed, stock_fundamentals >>
       ELSE /\ \E frame \in get_batch_historical_prices(batches(ticker_list)[batch_num],
                                                        delta_start, delta_end) :
                /\ df' = frame
                /\ slept' = batch_jitter(frame)
                /\ IF frame = {}
                   THEN /\ stats' = [ stats EXCEPT
                              !.failed = @ + Len(batches(ticker_list)[batch_num]) ]
                        /\ delta_missed' = delta_missed \cup
                              ( SeqSet(batches(ticker_list)[batch_num])
                                \X ProviderDates(delta_start, delta_end) )
                        /\ UNCHANGED daily_ohlcv
                   ELSE /\ daily_ohlcv' = upsert_delta_data(tickers, daily_ohlcv, frame)
                        /\ stats' = [ stats EXCEPT
                              !.records_inserted =
                                  @ + Cardinality(delta_rows_to_upsert(frame, tickers)),
                              !.updated = @ + Len(batches(ticker_list)[batch_num]) ]
                        /\ UNCHANGED delta_missed
            /\ provider_calls' = provider_calls \cup
                  { [ fn |-> "get_batch_historical_prices", key |-> batch_num,
                      is_bulk_load |-> FALSE, start_date |-> delta_start, end_date |-> delta_end ] }
            /\ batch_num' = batch_num + 1
            /\ UNCHANGED << clockv, tickers, population_progress, failed_tickers, next_failed_id,
                            ctlv, popv, retv, ticker_list, delta_start, cachev, result >>

(***************************************************************************)
(* get_price_history(db, ticker, start_date, end_date, use_cache), a read  *)
(* between two job runs                                                    *)
(***************************************************************************)
\* lines 184-193: the frame built from the DailyOHLCV rows
price_frame(rows) ==
    { [ date |-> r.date, Open |-> r.open, Close |-> r.close, Volume |-> r.volume ] : r \in rows }

\* lines 172-178: the stored rows of the ticker inside the range
stored_prices(table, t, start_date, end_date) ==
    { r \in table : r.ticker_id = t /\ r.date >= start_date /\ r.date <= end_date }

\* lines 145-207: defaults, the cache lookup, the database query, the cache
\* write; the gap check of lines 195-200 is commented out, no provider is called;
\* ok tells whether Redis answers during the request
get_price_history ==
    /\ job = "idle"
    /\ \E t \in Universe, use_cache \in BOOLEAN, ok \in BOOLEAN,
          end_date \in { get_last_trading_day(today) } :
        LET start_date == end_date - 365
            cached == IF use_cache THEN cache_get(cache, "prices", t, ok) ELSE {}
            prices == stored_prices(daily_ohlcv, t, start_date, end_date)
        IN  IF cached # {}
            THEN /\ result' = [ job |-> "read", ticker |-> t, calls |-> {}, from_cache |-> TRUE,
                                df |-> { x \in cached : x.date >= start_date /\ x.date <= end_date } ]
                 /\ UNCHANGED cache
            ELSE IF t \notin tickers \/ prices = {}
            THEN /\ result' = [ job |-> "read", ticker |-> t, calls |-> {}, from_cache |-> FALSE,
                                df |-> {} ]
                 /\ UNCHANGED cache
            ELSE /\ result' = [ job |-> "read", ticker |-> t, calls |-> {}, from_cache |-> FALSE,
                                df |-> price_frame(prices) ]
                 /\ cache' = IF use_cache
                             THEN cache_set(cache, "prices", t, price_frame(prices), ok)
                             ELSE cache
    /\ UNCHANGED << clockv, dbv, ctlv, popv, batch_num, df, stats, retv, deltav,
                    stock_fundamentals, slept, provider_calls >>

(***************************************************************************)
(* The environment: the calendar advances between jobs, and the process    *)
(* can be terminated while a job runs (what is committed stays).           *)
(***************************************************************************)
next_day ==
    /\ job = "idle"
    /\ today < FirstDay + MaxDays
    /\ today' = today + 1
    /\ result' = NoResult
    /\ UNCHANGED << hash_randomization, dbv, ctlv, popv, batch_num, df, stats, retv, deltav, cachev, slept, provider_calls >>

terminate ==
    /\ job # "idle"
    /\ LocalsReset
    /\ provider_calls' = {}
    /\ UNCHANGED << clockv, dbv, delta_missed, cachev, result >>

\* the bulk backfill and the retry queue processor, run one at a time
Next ==
    \/ populate_begin
    \/ populate_loop
    \/ populate_fetch
    \/ populate_enqueue
    \/ populate_mark_completed
    \/ retry_begin
    \/ retry_loop
    \/ retry_fetch
    \/ retry_delete
    \/ terminate

Spec == Init /\ [][Next]_vars

\* the bulk backfill and the nightly delta sync, run one at a time, over the days
NextDelta ==
    \/ populate_begin
    \/ populate_loop
    \/ populate_fetch
    \/ populate_enqueue
    \/ populate_mark_completed
    \/ delta_begin
    \/ delta_fetch
    \/ next_day
    \/ terminate

SpecDelta == Init /\ [][NextDelta]_vars

(***************************************************************************)
(* The retry processor on a queue entry whose ticker already has price     *)
(* rows.  With per-process hash seeds this state is left by: a first run   *)
(* <<t, u, w>> that completes batch 1 = <<t, u>> and is terminated, then a *)
(* resumed run <<u, w, t>> whose batch 2 = <<t>> gets no data.             *)
(***************************************************************************)
InitRetry ==
    \E t \in Universe : \E u \in Universe \ { t } :
    \E frame \in get_batch_historical_prices(<< t, u >>, FirstDay - 365 * 5, FirstDay) \ { {} } :
        /\ hash_randomization = TRUE
        /\ today = FirstDay
        /\ tickers = insert_batch_tickers({}, frame)
        /\ daily_ohlcv = insert_batch_prices({}, {}, frame)
        /\ population_progress =
              ( 1 :> [ status |-> "completed", records_inserted |-> Cardinality(frame),
                       ticker_list |-> << t, u >> ]
             @@ 2 :> [ status |-> "failed", records_inserted |-> 0, ticker_list |-> << t >> ] )
        /\ failed_tickers = NewFailedTickers(<< t >>, 2, 1)
        /\ next_failed_id = 2
        /\ job = "idle"
        /\ pc = "idle"
        /\ resume = FALSE
        /\ all_tickers = << >>
        /\ completed_batch_numbers = {}
        /\ batch_num = 0
        /\ df = {}
        /\ stats = NoStats
        /\ failed = {}
        /\ cur = 0
        /\ session = {}
        /\ ticker_list = << >>
        /\ delta_start = None
        /\ delta_missed = {}
        /\ cache = {}
        /\ stock_fundamentals = {}
        /\ slept = TRUE
        /\ provider_calls = {}
        /\ result = NoResult

NextRetry ==
    \/ retry_begin
    \/ retry_loop
    \/ retry_fetch
    \/ retry_delete
    \/ terminate

SpecRetry == InitRetry /\ [][NextRetry]_vars

(***************************************************************************)
(* Scheduling of the retry processor: a started run steps through its loop *)
(* unless the process is terminated, and retry_failed_tickers is invoked   *)
(* again and again.                                                        *)
(***************************************************************************)
FairSpec ==
    /\ SpecRetry
    /\ SF_vars(retry_begin)
    /\ WF_vars(retry_loop)
    /\ WF_vars(retry_fetch)
    /\ WF_vars(retry_delete)

(***************************************************************************)
(* _insert_batch_data applied twice to the same frame.  The table it       *)
(* starts from is one that an earlier insertion left; the frame is one the *)
(* batch provider can return.                                              *)
(***************************************************************************)
InsertFrames ==
    UNION { get_batch_historical_prices(lst, FirstDay - 365 * 5, FirstDay + MaxDays) :
                lst \in Orders(Universe) }

InitInsert ==
    \E before \in InsertFrames : \E frame \in InsertFrames \ { {} } :
        /\ hash_randomization = FALSE
        /\ today = FirstDay + MaxDays
        /\ tickers = insert_batch_tickers({}, before)
        /\ daily_ohlcv = insert_batch_prices({}, {}, before)
        /\ population_progress = << >>
        /\ failed_tickers = {}
        /\ next_failed_id = 1
        /\ job = "insert"
        /\ pc = "i_first"
        /\ resume = FALSE
        /\ all_tickers = << >>
        /\ completed_batch_numbers = {}
        /\ batch_num = 0
        /\ df = frame
        /\ stats = NoStats
        /\ failed = {}
        /\ cur = 0
        /\ session = {}
        /\ ticker_list = << >>
        /\ delta_start = None
        /\ delta_missed = {}
        /\ cache = {}
        /\ stock_fundamentals = {}
        /\ slept = TRUE
        /\ provider_calls = {}
        /\ result = [ job |-> "insert", before |-> insert_batch_prices({}, {}, before) ]

\* _insert_batch_data(db, df), lines 219-272; result keeps the table as it was
\* after the first application and what the calls returned
insert_batch_data ==
    /\ job = "insert"
    /\ pc \in { "i_first", "i_second" }
    /\ tickers' = insert_batch_tickers(tickers, df)
    /\ daily_ohlcv' = insert_batch_prices(tickers, daily_ohlcv, df)
    /\ result' = [ job |-> "insert",
                   before |-> result.before,
                   once |-> IF pc = "i_first" THEN daily_ohlcv' ELSE result.once,
                   returned |-> Cardinality(rows_to_upsert(df, tickers')) ]
    /\ pc' = IF pc = "i_first" THEN "i_second" ELSE "i_done"
    /\ UNCHANGED << clockv, population_progress, failed_tickers, next_failed_id, job, popv,
                    batch_num, df, stats, retv, deltav, cachev, slept, provider_calls >>

NextInsert == insert_batch_data

SpecInsert == InitInsert /\ [][NextInsert]_vars

\* the bulk backfill over the days, with price reads between the runs
NextRead ==
    \/ populate_begin
    \/ populate_loop
    \/ populate_fetch
    \/ populate_enqueue
    \/ populate_mark_completed
    \/ get_price_history
    \/ next_day
    \/ terminate

SpecRead == Init /\ [][NextRead]_vars

(***************************************************************************)
(* The nightly delta sync after a completed backfill: every ticker has its *)
(* row of the trading day before the first day, both checkpoints are       *)
(* completed, and the sync runs to its return night after night.           *)
(***************************************************************************)
InitHeal ==
    \E v \in { 1 } :
        /\ hash_randomization = FALSE
        /\ today = FirstDay
        /\ tickers = Universe
        /\ daily_ohlcv = { insert_row(Bar(t, FirstDay - 1, v)) : t \in Universe }
        /\ population_progress =
              [ b \in DOMAIN batches([ i \in 1 .. NumTickers |-> i ]) |->
                  [ status |-> "completed",
                    records_inserted |-> Len(batches([ i \in 1 .. NumTickers |-> i ])[b]),
                    ticker_list |-> batches([ i \in 1 .. NumTickers |-> i ])[b] ] ]
        /\ failed_tickers = {}
        /\ next_failed_id = 1
        /\ job = "idle"
        /\ pc = "idle"
        /\ resume = FALSE
        /\ all_tickers = << >>
        /\ completed_batch_numbers = {}
        /\ batch_num = 0
        /\ df = {}
        /\ stats = NoStats
        /\ failed = {}
        /\ cur = 0
        /\ session = {}
        /\ ticker_list = << >>
        /\ delta_start = None
        /\ delta_missed = {}
        /\ cache = {}
        /\ stock_fundamentals = {}
        /\ slept = TRUE
        /\ provider_calls = {}
        /\ result = NoResult

NextHeal ==
    \/ delta_begin
    \/ delta_fetch
    \/ next_day

SpecHeal == InitHeal /\ [][NextHeal]_vars

(***************************************************************************)
(* update_fundamentals_daily: the segment of the tracked tickers that one  *)
(* day of the week updates, computed on seven consecutive days for one     *)
(* list ordered by Ticker.id.                                              *)
(***************************************************************************)
\* Python's lst[a:b] for 0 <= a, 0 <= b
slice(lst, a, b) ==
    IF Min(a, Len(lst)) >= Min(b, Len(lst))
    THEN << >>
    ELSE SubSeq(lst, Min(a, Len(lst)) + 1, Min(b, Len(lst)))

\* lines 51-52
segment_size(total_count) == total_count \div 7
start_idx(total_count, day_of_week) == day_of_week * segment_size(total_count)

\* a slip: the last day gets a segment like the others
end_idx_no_remainder(total_count, day_of_week) ==
    start_idx(total_count, day_of_week) + segment_size(total_count)

\* lines 55-58: the last day gets the remainder
end_idx(total_count, day_of_week) ==
    IF day_of_week = 6
    THEN total_count
    ELSE start_idx(total_count, day_of_week) + segment_size(total_count)

\* line 60
today_tickers(lst, day_of_week) ==
    slice(lst, start_idx(Len(lst), day_of_week), end_idx(Len(lst), day_of_week))

InitSegments ==
    \E n \in 0 .. MaxList : \E d \in FirstDay .. (FirstDay + 6) :
        /\ hash_randomization = FALSE
        /\ today = d
        /\ tickers = {}
        /\ daily_ohlcv = {}
        /\ population_progress = << >>
        /\ failed_tickers = {}
        /\ next_failed_id = 1
        /\ job = "segments"
        /\ pc = "s_day"
        /\ resume = FALSE
        /\ all_tickers = [ i \in 1 .. n |-> i ]
        /\ completed_batch_numbers = {}
        /\ batch_num = 0
        /\ df = {}
        /\ stats = NoStats
        /\ failed = {}
        /\ cur = 0
        /\ session = {}
        /\ ticker_list = << >>
        /\ delta_start = None
        /\ delta_missed = {}
        /\ cache = {}
        /\ stock_fundamentals = {}
        /\ slept = TRUE
        /\ provider_calls = {}
        /\ result = [ job |-> "segments", segments |-> << >> ]

\* lines 38-61 on the day `today`; result.segments keeps, by day of the week,
\* the index range and the segment; then the next day comes
fundamentals_segment ==
    /\ job = "segments" /\ pc = "s_day"
    /\ LET day_of_week == weekday(today)
           total_count == Len(all_tickers)
       IN  result' = [ result EXCEPT !.segments =
                         ( day_of_week :>
                              [ start_idx |-> start_idx(total_count, day_of_week),
                                end_idx |-> end_idx(total_count, day_of_week),
                                today_tickers |-> today_tickers(all_tickers, day_of_week) ] )
                         @@ result.segments ]
    /\ batch_num' = batch_num + 1
    /\ pc' = IF batch_num = 6 THEN "s_done" ELSE "s_day"
    /\ today' = today + 1
    /\ UNCHANGED << hash_randomization, dbv, job, popv, df, stats, retv, deltav, cachev, slept,
                    provider_calls >>

NextSegments == fundamentals_segment

SpecSegments == InitSegments /\ [][NextSegments]_vars

(***************************************************************************)
(* detect_missing_days on date lists and ranges around a holiday and a     *)
(* weekend.                                                                *)
(***************************************************************************)
\* sorted(list(S)) for a set of dates
RECURSIVE sorted(_)
sorted(S) == IF S = {} THEN << >> ELSE << MinOf(S) >> \o sorted(S \ { MinOf(S) })

\* get_trading_days_between(start_date, end_date), inclusive: the business
\* days of the range that are no holiday of USMarketCalendar, ascending
get_trading_days_between(start_date, end_date) ==
    sorted({ d \in start_date .. end_date : weekday(d) < 5 /\ ~ IsHoliday(d) })

\* a slip: the existing dates are not taken out
detect_missing_days_keeps_existing(existing_dates, start_date, end_date) ==
    sorted(SeqSet(get_trading_days_between(start_date, end_date)))

\* detect_missing_days(existing_dates, start_date, end_date), lines 102-107
detect_missing_days(existing_dates, start_date, end_date) ==
    sorted(SeqSet(get_trading_days_between(start_date, end_date)) \ SeqSet(existing_dates))

\* Tuesday 2024-07-02 .. Monday 2024-07-08 with MaxDays = 3
MissingWindow == (FirstDay - 1) .. (FirstDay + MaxDays + 2)

InitMissing ==
    \E ex \in SUBSET MissingWindow : \E sd \in MissingWindow : \E ed \in MissingWindow :
        /\ hash_randomization = FALSE
        /\ today = FirstDay
        /\ tickers = {}
        /\ daily_ohlcv = {}
        /\ population_progress = << >>
        /\ failed_tickers = {}
        /\ next_failed_id = 1
        /\ job = "missing"
        /\ pc = "m_call"
        /\ resume = FALSE
        /\ all_tickers = << >>
        /\ completed_batch_numbers = {}
        /\ batch_num = 0
        /\ df = {}
        /\ stats = NoStats
        /\ failed = {}
        /\ cur = 0
        /\ session = {}
        /\ ticker_list = << >>
        /\ delta_start = None
        /\ delta_missed = {}
        /\ cache = {}
        /\ stock_fundamentals = {}
        /\ slept = TRUE
        /\ provider_calls = {}
        /\ result = [ job |-> "missing", existing_dates |-> sorted(ex),
                      start_date |-> sd, end_date |-> ed, missing |-> << >> ]

\* one call of detect_missing_days on the drawn arguments
detect_missing ==
    /\ job = "missing" /\ pc = "m_call"
    /\ result' = [ result EXCEPT !.missing =
                      detect_missing_days(result.existing_dates, result.start_date,
                                          result.end_date) ]
    /\ pc' = "m_done"
    /\ UNCHANGED << clockv, dbv, job, popv, batch_num, df, stats, retv, deltav, cachev, slept,
                    provider_calls >>

NextMissing == detect_missing

SpecMissing == InitMissing /\ [][NextMissing]_vars

(***************************************************************************)
(* Properties.                                                             *)
(***************************************************************************)
\* the batch numbers a returned populate_all_stocks run called the provider for
FetchedBatches == { c.key : c \in result.calls }
PopulateRan == result.job = "populate" /\ result.stats.total_batches > 0

\* C1: with batches 1..J completed and resume=True, the run calls the provider
\* for no batch of 1..J and for every batch of J+1..K
C1_ResumeSkipsCompletedPrefix ==
    ( /\ PopulateRan
      /\ result.resume
      /\ \E J \in 0 .. result.stats.total_batches : result.completed_at_start = 1 .. J )
    => FetchedBatches = (1 .. result.stats.total_batches) \ result.completed_at_start

\* C2: a resumed run fetches again every batch whose checkpoint is not
\* completed (absent, in_progress or failed) and goes through to the last batch
C2_ResumeRefetchesAllNotCompleted ==
    ( PopulateRan /\ result.resume )
    => /\ result.finished
       /\ \A b \in 1 .. result.stats.total_batches :
            b \notin result.completed_at_start => b \in FetchedBatches

\* C3: when the batch fetch returns no data the checkpoint becomes failed, one
\* pending FailedTicker row is created for every ticker of the batch, and the
\* job goes on to the next batch
C3_NoDataFailsBatchAndContinues ==
    [][ /\ ( job = "populate" /\ pc = "p_fetch" /\ job' = "populate" /\ df' = {} )
           => /\ population_progress'[batch_num].status = "failed"
              /\ pc' = "p_enqueue"
              /\ batch_num' = batch_num
        /\ ( job = "populate" /\ pc = "p_enqueue" /\ job' = "populate" )
           => /\ failed_tickers \subseteq failed_tickers'
              /\ Cardinality(failed_tickers' \ failed_tickers) = Len(batches(all_tickers)[batch_num])
              /\ \A t \in SeqSet(batches(all_tickers)[batch_num]) :
                    \E e \in failed_tickers' \ failed_tickers :
                        /\ e.ticker = t
                        /\ e.batch_number = batch_num
                        /\ e.status = "pending"
                        /\ e.retry_count = 0
              /\ pc' = "p_loop"
              /\ batch_num' = batch_num + 1
      ]_vars

\* a failed batch of two tickers is behind, and the next batch has been fetched
C3_Witness ==
    /\ job = "populate" /\ pc = "p_complete" /\ batch_num = 2
    /\ population_progress[1].status = "failed"
    /\ stats.failed_batches = 1
    /\ Cardinality({ e \in failed_tickers : e.batch_number = 1 /\ e.status = "pending" }) = 2

\* C4: every FailedTicker row has retry_count <= 3
C4_RetryCountAtMostThree == \A e \in failed_tickers : e.retry_count <= 3

\* an entry has been attempted three times
C4_Witness == \E e \in failed_tickers : e.retry_count = 3

\* C5: after a completed retry run no entry is pending with retry_count = 3 and
\* no entry is permanent_failure with retry_count < 3
C5_PermanentFailureExactlyAtCap ==
    result.job = "retry"
    => \A e \in failed_tickers :
        /\ ~ ( e.retry_count = 3 /\ e.status = "pending" )
        /\ ~ ( e.retry_count < 3 /\ e.status = "permanent_failure" )

\* C6: under repeated retry runs, of which only finitely many are ended by
\* process termination, every queue entry is eventually deleted or marked
\* permanent_failure for good; none stays pending or retrying forever
C6_EveryEntryEventuallySettled ==
    ( <>[][~terminate]_vars )
    => \A id \in 1 .. NumTickers :
           <>[]( \A e \in failed_tickers : e.id = id => e.status = "permanent_failure" )

\* the price table holds exactly the row of the frame for each of its keys
Stored(table, frame) ==
    \A row \in frame :
        { r \in table : r.ticker_id = row.ticker /\ r.date = row.date } = { retry_row(row) }

\* C7 as stated: a non-empty series is always stored and the entry deleted
C7_NonEmptyFetchStoresAndDeletes ==
    [][ /\ ( job = "retry" /\ pc = "r_fetch" /\ job' = "retry" /\ df' # {} )
           => ( Stored(daily_ohlcv', df') /\ pc' = "r_delete" /\ cur' = cur )
        /\ ( job = "retry" /\ pc = "r_delete" /\ job' = "retry" )
           => ~ \E e \in failed_tickers' : e.id = cur
      ]_vars

\* C8: _insert_batch_data applied twice to the same rows leaves the price
\* table as one application does, with exactly one row per (ticker, date)
\* and, for every input row, the input's field values
C8_InsertTwiceIsInsertOnce ==
    pc \in { "i_second", "i_done" }
    => /\ pc = "i_done" => daily_ohlcv = result.once
       /\ \A r1 \in daily_ohlcv : \A r2 \in daily_ohlcv :
             ( r1.ticker_id = r2.ticker_id /\ r1.date = r2.date ) => r1 = r2
       /\ \A row \in df : \E r \in daily_ohlcv :
             /\ r.ticker_id = row.ticker /\ r.date = row.date
             /\ r.open = row.Open /\ r.close = row.Close /\ r.volume = row.Volume
       /\ \A r \in result.before :
             ( ~ \E row \in df : r.ticker_id = row.ticker /\ r.date = row.date )
             => r \in daily_ohlcv

\* the frame went in twice over a stored row of the same key and another value
C8_Witness ==
    /\ pc = "i_done"
    /\ \E r \in result.before : \E row \in df :
          r.ticker_id = row.ticker /\ r.date = row.date /\ r.close # row.Close
    /\ \E r \in result.before : ~ \E row \in df : r.ticker_id = row.ticker /\ r.date = row.date

\* C9: when the latest stored date is on or after the last trading day, a call
\* of daily_delta_sync returns at once: no provider call, no upsert, the
\* price store as it was
C9_UpToDateStoreIsNoOp ==
    [][ ( delta_begin /\ daily_ohlcv # {}
          /\ last_db_date(daily_ohlcv) >= get_last_trading_day(today) )
        => /\ job' = "idle"
           /\ provider_calls' = {}
           /\ result'.job = "delta" /\ result'.calls = {}
           /\ result'.stats.records_inserted = 0 /\ result'.stats.updated = 0
           /\ daily_ohlcv' = daily_ohlcv /\ tickers' = tickers
      ]_vars

\* daily_delta_sync has returned on a trading day whose data is stored
C9_Witness ==
    /\ job = "idle" /\ result.job = "delta" /\ result.calls = {}
    /\ is_trading_day(today)
    /\ daily_ohlcv # {}
    /\ last_db_date(daily_ohlcv) = today

\* C10: on a non-trading day, or with an empty price store, a call of
\* daily_delta_sync makes no provider call, writes nothing and returns its
\* zeroed statistics
C10_NonTradingDayOrEmptyStoreIsNoOp ==
    [][ ( delta_begin /\ ( ~ is_trading_day(today) \/ daily_ohlcv = {} ) )
        => /\ job' = "idle"
           /\ provider_calls' = {}
           /\ result' = [ job |-> "delta", stats |-> ZeroDeltaStats, calls |-> {} ]
           /\ UNCHANGED dbv
      ]_vars

\* daily_delta_sync has returned on a non-trading day that follows a trading
\* day whose data is not stored
C10_Witness ==
    /\ job = "idle" /\ result.job = "delta" /\ result.calls = {}
    /\ result.stats = ZeroDeltaStats
    /\ ~ is_trading_day(today)
    /\ daily_ohlcv # {}
    /\ last_db_date(daily_ohlcv) < get_last_trading_day(today)

\* C11: when a delta run asks the provider for a batch, the requested range
\* covers every day that an earlier delta run asked for a ticker of the batch
\* and got no data for, as long as that day is still not stored
C11_FailedBatchIsRequestedAgain ==
    [][ ( job = "delta" /\ pc = "d_fetch" /\ job' = "delta" /\ batch_num' = batch_num + 1 )
        => \A t \in SeqSet(batches(ticker_list)[batch_num]) :
             \A m \in delta_missed :
                ( m[1] = t /\ ~ \E r \in daily_ohlcv : r.ticker_id = t /\ r.date = m[2] )
                => ( delta_start <= m[2] /\ m[2] <= delta_end )
      ]_vars

\* C12: for one ordered list, the segments of the days 0..6 are contiguous
\* and pairwise disjoint index ranges, joined in day order they give the list
\* exactly once, days 0..5 have floor(M / 7) tickers each and day 6 the rest
C12_SegmentsPartitionTheList ==
    pc = "s_done"
    => LET seg == result.segments
           M == Len(all_tickers)
       IN  /\ DOMAIN seg = 0 .. 6
           /\ seg[0].today_tickers \o seg[1].today_tickers \o seg[2].today_tickers
                 \o seg[3].today_tickers \o seg[4].today_tickers \o seg[5].today_tickers
                 \o seg[6].today_tickers = all_tickers
           /\ \A d \in 0 .. 5 : Len(seg[d].today_tickers) = M \div 7
           /\ Len(seg[6].today_tickers) = M - 6 * ( M \div 7 )
           /\ seg[0].start_idx = 0
           /\ \A d \in 0 .. 5 : seg[d].end_idx = seg[d + 1].start_idx
           /\ seg[6].end_idx = M
           /\ \A d \in 0 .. 6 : \A e \in 0 .. 6 :
                 d # e => SeqSet(seg[d].today_tickers) \cap SeqSet(seg[e].today_tickers) = {}

\* the seven segments of a list whose length is above 7 and no multiple of 7
C12_Witness ==
    /\ pc = "s_done"
    /\ Len(all_tickers) > 7 /\ Len(all_tickers) % 7 # 0
    /\ Len(result.segments[6].today_tickers) > Len(result.segments[0].today_tickers)
    /\ Len(result.segments[0].today_tickers) > 0

\* C13: detect_missing_days returns the trading days of [start, end] that are
\* not among the existing dates: all of them, only them, ascending, none
\* twice, no weekend day and no holiday
C13_MissingDaysAreTradingDaysMinusExisting ==
    pc = "m_done"
    => LET m == result.missing
           expected == { d \in result.start_date .. result.end_date : is_trading_day(d) }
       IN  /\ SeqSet(m) = expected \ SeqSet(result.existing_dates)
           /\ SeqSet(m) = SeqSet(get_trading_days_between(result.start_date, result.end_date))
                              \ SeqSet(result.existing_dates)
           /\ \A i \in DOMAIN m : \A j \in DOMAIN m : i < j => m[i] < m[j]
           /\ \A i \in DOMAIN m : weekday(m[i]) < 5 /\ ~ IsHoliday(m[i])

\* a range over the holiday and the weekend; the existing dates hold a
\* trading day of the range, the holiday, a Saturday and a day before the range
C13_Witness ==
    /\ pc = "m_done"
    /\ result.start_date = FirstDay /\ result.end_date = FirstDay + 5
    /\ SeqSet(result.existing_dates) = { FirstDay - 1, FirstDay, FirstDay + 1, FirstDay + 3 }
    /\ result.missing = << FirstDay + 2, FirstDay + 5 >>

(***************************************************************************)
(* update_fundamentals_daily(): the snapshots of today's segment, batch by *)
(* batch, with the reads that fill the stock:{symbol} and screener:* keys  *)
(***************************************************************************)
FundBatchSize == 2

\* line 76
fund_batches(lst) ==
    [ n \in 1 .. ((Len(lst) + FundBatchSize - 1) \div FundBatchSize) |->
        SubSeq(lst, (n - 1) * FundBatchSize + 1, Min(n * FundBatchSize, Len(lst))) ]

\* db.query(Ticker).order_by(Ticker.id).all()
tickers_by_id(known) == sorted(known)

\* provider.get_batch_fundamentals(batch): a dict with the snapshots of some
\* of the batch's symbols; the empty dict stands for every falsy answer
FundamentalsData(batch) == UNION { [ S -> Vals ] : S \in SUBSET SeqSet(batch) }

\* the dict's items, in the order of the request
fund_items(batch, data) == SelectSeq(batch, LAMBDA t : t \in DOMAIN data)

\* _upsert_fundamentals, lines 143-203: one row per ticker, then db.commit()
upsert_fundamentals(sf, t, v) ==
    { r \in sf : r.ticker_id # t } \cup { [ ticker_id |-> t, value |-> v ] }

\* a slip: the Redis error reaches the caller
cache_raises_on_error(ok) == ~ ok

\* cache.py: every method catches Exception and returns None or False
cache_raises(ok) == FALSE

\* a slip: the detail key is left alone
invalidate_stock_never(c, t, ok) == c

\* line 105: cache_service.delete(f"stock:{ticker_symbol}")
invalidate_stock(c, t, ok) == cache_delete(c, "stock", t, ok)

\* lines 94-105: the items one after the other, each upserted and committed
\* and then invalidated; oks holds the symbols whose delete reaches Redis
RECURSIVE update_each(_, _, _, _, _)
update_each(items, data, known, oks, acc) ==
    IF items = << >> \/ acc.raised
    THEN acc
    ELSE LET t == Head(items)
         IN  IF t \notin known
             THEN update_each(Tail(items), data, known, oks, acc)
             ELSE update_each(Tail(items), data, known, oks,
                    [ sf |-> upsert_fundamentals(acc.sf, t, data[t]),
                      updated_count |-> acc.updated_count + 1,
                      cache |-> IF cache_raises(t \in oks)
                                THEN acc.cache
                                ELSE invalidate_stock(acc.cache, t, t \in oks),
                      raised |-> cache_raises(t \in oks) ])

\* lines 81-114, one turn of the loop: the first n_ok items go through, the
\* database raises at the next one if there is one; an exception adds the
\* batch to stats.failed and rolls the open transaction back
fund_batch_outcome(batch, data, n_ok, known, oks, sf, c, st) ==
    IF DOMAIN data = {}
    THEN [ sf |-> sf, cache |-> c, stats |-> [ st EXCEPT !.failed = @ + Len(batch) ] ]
    ELSE LET items == fund_items(batch, data)
             r == update_each(SubSeq(items, 1, n_ok), data, known, oks,
                              [ sf |-> sf, updated_count |-> 0, cache |-> c, raised |-> FALSE ])
         IN  IF r.raised \/ n_ok < Len(items)
             THEN [ sf |-> r.sf, cache |-> r.cache,
                    stats |-> [ st EXCEPT !.failed = @ + Len(batch) ] ]
             ELSE [ sf |-> r.sf, cache |-> r.cache,
                    stats |-> [ st EXCEPT !.updated = @ + r.updated_count ] ]

FundReturn(st) ==
    /\ result' = [ job |-> "fund", stats |-> st ]
    /\ LocalsReset
    /\ UNCHANGED << clockv, dbv, delta_missed, provider_calls >>

\* lines 38-76: the day of the cycle, the segment, its batches
fund_begin ==
    /\ job = "idle"
    /\ LET lst == tickers_by_id(tickers)
           seg == today_tickers(lst, weekday(today))
       IN  IF Len(lst) = 0
           THEN /\ FundReturn([ total_tickers |-> 0, segment_size |-> 0, updated |-> 0,
                                failed |-> 0, skipped |-> 0 ])
                /\ UNCHANGED cachev
           ELSE /\ job' = "fund"
                /\ pc' = "f_batch"
                /\ ticker_list' = seg
                /\ batch_num' = 1
                /\ stats' = [ total_tickers |-> Len(lst), segment_size |-> Len(seg),
                              updated |-> 0, failed |-> 0, skipped |-> 0 ]
                /\ result' = NoResult
                /\ UNCHANGED << clockv, dbv, resume, all_tickers, completed_batch_numbers, df,
                                retv, delta_start, delta_missed, cachev, slept, provider_calls >>

\* lines 81-114: one batch
fund_batch(oks) ==
    /\ job = "fund" /\ pc = "f_batch"
    /\ batch_num <= Len(fund_batches(ticker_list))
    /\ \E data \in FundamentalsData(fund_batches(ticker_list)[batch_num]) :
         \E n_ok \in 0 .. Cardinality(DOMAIN data) :
            \E o \in { fund_batch_outcome(fund_batches(ticker_list)[batch_num], data, n_ok,
                                           tickers, oks, stock_fundamentals, cache, stats) } :
                /\ stock_fundamentals' = o.sf
                /\ cache' = o.cache
                /\ stats' = o.stats
    /\ batch_num' = batch_num + 1
    /\ UNCHANGED << clockv, dbv, job, pc, resume, all_tickers, completed_batch_numbers, df,
                    retv, deltav, slept, provider_calls, result >>

\* lines 116-132: the screener keys are cleared and the statistics returned;
\* an exception here would be caught at line 134, which returns them as well
fund_return(ok) ==
    /\ job = "fund" /\ pc = "f_batch"
    /\ batch_num > Len(fund_batches(ticker_list))
    /\ cache' = IF cache_raises(ok) THEN cache ELSE clear_pattern(cache, "screener", ok)
    /\ FundReturn(stats)
    /\ UNCHANGED stock_fundamentals

\* the response of get_stock_with_fundamentals, a dict
stock_data(t, v) == { << "ticker", t >>, << "pe_ratio", v >> }

\* stock_service.py lines 34-116: the cached response, or the stored snapshot,
\* which is then cached
get_stock_with_fundamentals ==
    /\ job = "idle"
    /\ \E t \in Universe, use_cache \in BOOLEAN, ok \in BOOLEAN :
        LET cached == IF use_cache THEN cache_get(cache, "stock", t, ok) ELSE {}
            found == { r \in stock_fundamentals : r.ticker_id = t }
        IN  IF cached # {}
            THEN /\ result' = [ job |-> "stock", ticker |-> t, data |-> cached ]
                 /\ UNCHANGED cache
            ELSE IF t \notin tickers \/ found = {}
            THEN /\ result' = [ job |-> "stock", ticker |-> t, data |-> {} ]
                 /\ UNCHANGED cache
            ELSE \E r \in found :
                 /\ result' = [ job |-> "stock", ticker |-> t, data |-> stock_data(t, r.value) ]
                 /\ cache' = IF use_cache
                             THEN cache_set(cache, "stock", t, stock_data(t, r.value), ok)
                             ELSE cache
    /\ UNCHANGED << clockv, dbv, ctlv, popv, batch_num, df, stats, retv, deltav,
                    stock_fundamentals, slept, provider_calls >>

\* routes/screener.py lines 90-116: the distinct sectors of the snapshots,
\* cached under screener:sectors
get_available_sectors ==
    /\ job = "idle"
    /\ \E ok \in BOOLEAN :
        LET cached == cache_get(cache, "screener", 0, ok)
            built == { << "sector", r.value >> : r \in stock_fundamentals }
                       \cup { << "count", Cardinality({ r.value : r \in stock_fundamentals }) >> }
        IN  IF cached # {}
            THEN /\ result' = [ job |-> "sectors", data |-> cached ]
                 /\ UNCHANGED cache
            ELSE /\ result' = [ job |-> "sectors", data |-> built ]
                 /\ cache' = cache_set(cache, "screener", 0, built, ok)
    /\ UNCHANGED << clockv, dbv, ctlv, popv, batch_num, df, stats, retv, deltav,
                    stock_fundamentals, slept, provider_calls >>

\* the tickers are loaded, no snapshot is stored yet; the day is any day of
\* the week
InitFund ==
    \E d \in FirstDay .. (FirstDay + 6) :
        /\ hash_randomization = FALSE
        /\ today = d
        /\ tickers = Universe
        /\ daily_ohlcv = {}
        /\ population_progress = << >>
        /\ failed_tickers = {}
        /\ next_failed_id = 1
        /\ job = "idle"
        /\ pc = "idle"
        /\ resume = FALSE
        /\ all_tickers = << >>
        /\ completed_batch_numbers = {}
        /\ batch_num = 0
        /\ df = {}
        /\ stats = NoStats
        /\ failed = {}
        /\ cur = 0
        /\ session = {}
        /\ ticker_list = << >>
        /\ delta_start = None
        /\ delta_missed = {}
        /\ cache = {}
        /\ stock_fundamentals = {}
        /\ slept = TRUE
        /\ provider_calls = {}
        /\ result = NoResult

NextFund ==
    \/ fund_begin
    \/ \E oks \in SUBSET Universe : fund_batch(oks)
    \/ \E ok \in BOOLEAN : fund_return(ok)
    \/ get_stock_with_fundamentals
    \/ get_available_sectors
    \/ terminate

SpecFund == InitFund /\ [][NextFund]_vars

(***************************************************************************)
(* The provider boundary: the four methods of the two concrete providers,  *)
(* each applied to a request and to what the upstream service does with it *)
(***************************************************************************)
Providers == { "yfinance", "yahooquery" }
SingleMethods == { "get_historical_prices", "get_fundamentals" }
BatchMethods == { "get_batch_historical_prices", "get_batch_fundamentals" }
\* what the upstream has for one symbol, and whether the HTTP exchange fails
Upstream == { "data", "empty", "error" }

NoneAnswer == [ kind |-> "none", of |-> {} ]
EmptyAnswer == [ kind |-> "empty", of |-> {} ]
Raised == [ kind |-> "raised", of |-> {} ]
DataAnswer(S) == [ kind |-> "data", of |-> S ]

\* a slip: a method body without its try/except
unguarded(outcome, fallback) == outcome

\* try: ... except Exception: return fallback
guarded(outcome, fallback) == IF outcome.kind = "raised" THEN fallback ELSE outcome

\* yfinance_provider.py lines 108-149
yf_get_historical_prices(t, up, whole) ==
    guarded(IF whole = "error" \/ up[t] = "error" THEN Raised
            ELSE IF up[t] = "empty" THEN NoneAnswer
            ELSE DataAnswer({ t }),
            NoneAnswer)

\* yfinance_provider.py lines 151-224: one download for the batch; symbols the
\* upstream cannot serve are left out of the frame
yf_get_batch_historical_prices(batch, up, whole) ==
    guarded(IF whole = "error" THEN Raised
            ELSE IF { t \in SeqSet(batch) : up[t] = "data" } = {} THEN NoneAnswer
            ELSE DataAnswer({ t \in SeqSet(batch) : up[t] = "data" }),
            NoneAnswer)

\* yfinance_provider.py lines 226-298
yf_get_fundamentals(t, up, whole) ==
    guarded(IF whole = "error" \/ up[t] = "error" THEN Raised
            ELSE IF up[t] = "empty" THEN NoneAnswer
            ELSE DataAnswer({ t }),
            NoneAnswer)

\* yfinance_provider.py lines 300-316: get_fundamentals for each symbol, the
\* truthy answers collected in a dict
yf_get_batch_fundamentals(batch, up, whole) ==
    IF \E t \in SeqSet(batch) : yf_get_fundamentals(t, up, whole).kind = "raised"
    THEN Raised
    ELSE LET got == { t \in SeqSet(batch) : yf_get_fundamentals(t, up, whole).kind = "data" }
         IN  IF got = {} THEN EmptyAnswer ELSE DataAnswer(got)

\* yahooquery_provider.py lines 44-149
yq_get_fundamentals(t, up, whole) ==
    guarded(IF whole = "error" \/ up[t] = "error" THEN Raised
            ELSE IF up[t] = "empty" THEN NoneAnswer
            ELSE DataAnswer({ t }),
            NoneAnswer)

\* yahooquery_provider.py lines 151-270
yq_get_batch_fundamentals(batch, up, whole) ==
    IF batch = << >>
    THEN EmptyAnswer
    ELSE guarded(IF whole = "error" THEN Raised
                 ELSE IF { t \in SeqSet(batch) : up[t] = "data" } = {} THEN EmptyAnswer
                 ELSE DataAnswer({ t \in SeqSet(batch) : up[t] = "data" }),
                 EmptyAnswer)

\* yahooquery_provider.py lines 272-298: no price history from this provider
yq_get_historical_prices(t, up, whole) == NoneAnswer
yq_get_batch_historical_prices(batch, up, whole) == NoneAnswer

provider_answer(req) ==
    IF req.provider = "yfinance"
    THEN CASE req.method = "get_historical_prices" ->
                 yf_get_historical_prices(Head(req.tickers), req.up, req.whole)
           [] req.method = "get_batch_historical_prices" ->
                 yf_get_batch_historical_prices(req.tickers, req.up, req.whole)
           [] req.method = "get_fundamentals" ->
                 yf_get_fundamentals(Head(req.tickers), req.up, req.whole)
           [] req.method = "get_batch_fundamentals" ->
                 yf_get_batch_fundamentals(req.tickers, req.up, req.whole)
    ELSE CASE req.method = "get_historical_prices" ->
                 yq_get_historical_prices(Head(req.tickers), req.up, req.whole)
           [] req.method = "get_batch_historical_prices" ->
                 yq_get_batch_historical_prices(req.tickers, req.up, req.whole)
           [] req.method = "get_fundamentals" ->
                 yq_get_fundamentals(Head(req.tickers), req.up, req.whole)
           [] req.method = "get_batch_fundamentals" ->
                 yq_get_batch_fundamentals(req.tickers, req.up, req.whole)

\* the requests: a symbol for the single methods, a batch (possibly empty) for
\* the batch methods
Requests ==
    { [ job |-> "request", provider |-> p, method |-> m, tickers |-> ts, up |-> up, whole |-> w ] :
        p \in Providers, m \in SingleMethods, ts \in { << t >> : t \in Universe },
        up \in [ Universe -> Upstream ], w \in { "ok", "error" } }
    \cup
    { [ job |-> "request", provider |-> p, method |-> m, tickers |-> ts, up |-> up, whole |-> w ] :
        p \in Providers, m \in BatchMethods,
        ts \in { << >> } \cup { batches([ i \in 1 .. NumTickers |-> i ])[b] :
                                   b \in DOMAIN batches([ i \in 1 .. NumTickers |-> i ]) },
        up \in [ Universe -> Upstream ], w \in { "ok", "error" } }

InitProvider ==
    /\ hash_randomization = FALSE
    /\ today = FirstDay
    /\ tickers = {}
    /\ daily_ohlcv = {}
    /\ population_progress = << >>
    /\ failed_tickers = {}
    /\ next_failed_id = 1
    /\ job = "provider"
    /\ pc = "call"
    /\ resume = FALSE
    /\ all_tickers = << >>
    /\ completed_batch_numbers = {}
    /\ batch_num = 0
    /\ df = {}
    /\ stats = NoStats
    /\ failed = {}
    /\ cur = 0
    /\ session = {}
    /\ ticker_list = << >>
    /\ delta_start = None
    /\ delta_missed = {}
    /\ cache = {}
    /\ stock_fundamentals = {}
    /\ slept = TRUE
    /\ provider_calls = {}
    /\ result \in Requests

\* the method runs and answers its caller
provider_call ==
    /\ job = "provider" /\ pc = "call"
    /\ result' = [ job |-> "provider", request |-> result, answer |-> provider_answer(result) ]
    /\ pc' = "done"
    /\ UNCHANGED << clockv, dbv, job, popv, batch_num, df, stats, retv, deltav, cachev, slept,
                    provider_calls >>

NextProvider == provider_call

SpecProvider == InitProvider /\ [][NextProvider]_vars

(***************************************************************************)
(* The bulk backfill run by processes whose str hashes are randomized, the *)
(* interpreter's default                                                   *)
(***************************************************************************)
InitOrder == hash_randomization = TRUE /\ InitState

NextOrder ==
    \/ populate_begin
    \/ populate_loop
    \/ populate_fetch
    \/ populate_enqueue
    \/ populate_mark_completed
    \/ terminate

SpecOrder == InitOrder /\ [][NextOrder]_vars

(***************************************************************************)
(* The bulk backfill with a batch whose processing raises inside the try   *)
(* block of lines 115-163                                                  *)
(***************************************************************************)
\* What the session can still do when the handler of lines 165-187 runs:
\* after an exception raised by Python code the transaction is intact and
\* db.commit() commits what was flushed; after an error of the database
\* (flush, execute or commit) the transaction is aborted, db.commit() raises
\* again and the exception reaches the handler of lines 211-213
ExceptionKinds == { "python", "database" }

\* lines 124-187 for a batch that got data: _insert_batch_data raises before
\* its commit (the new Ticker rows flushed or not yet), or the commit of the
\* completed checkpoint raises
populate_raise(kind) ==
    /\ job = "populate"
    /\ \/ /\ pc = "p_fetch"
          /\ \E frame \in get_batch_historical_prices(batches(all_tickers)[batch_num],
                                                       BulkStart, BulkEnd) \ { {} } :
             \E flushed \in BOOLEAN :
                /\ provider_calls' = provider_calls \cup
                      { [ fn |-> "get_batch_historical_prices", key |-> batch_num,
                          is_bulk_load |-> TRUE, start_date |-> BulkStart, end_date |-> BulkEnd ] }
                /\ IF kind = "python"
                   THEN /\ tickers' = IF flushed THEN insert_batch_tickers(tickers, frame)
                                                 ELSE tickers
                        /\ population_progress' =
                              [ population_progress EXCEPT ![batch_num].status = "failed" ]
                        /\ stats' = [ stats EXCEPT !.failed_batches = @ + 1 ]
                        /\ df' = frame
                        /\ slept' = batch_jitter(frame)
                        /\ pc' = "p_enqueue"
                        /\ UNCHANGED << clockv, daily_ohlcv, failed_tickers, next_failed_id, job,
                                        popv, batch_num, retv, deltav, cachev, result >>
                   ELSE /\ result' = [ job |-> "populate", resume |-> resume, stats |-> stats,
                                       completed_at_start |-> completed_batch_numbers,
                                       calls |-> provider_calls', finished |-> FALSE ]
                        /\ LocalsReset
                        /\ UNCHANGED << clockv, dbv, delta_missed, cachev >>
       \/ /\ pc = "p_complete"
          /\ kind = "database"
          /\ PopulateReturn(stats, FALSE)
          /\ UNCHANGED << clockv, dbv >>

NextRaise ==
    \/ populate_begin
    \/ populate_loop
    \/ populate_fetch
    \/ populate_enqueue
    \/ populate_mark_completed
    \/ \E kind \in ExceptionKinds : populate_raise(kind)
    \/ terminate

SpecRaise == Init /\ [][NextRaise]_vars

(***************************************************************************)
(* daily_delta_sync() when _upsert_delta_data raises.  The handler of the  *)
(* batch loop (lines 117-120) counts the batch as failed and continues; it *)
(* does not call db.rollback().  After an exception that left the          *)
(* Session's transaction usable the loop goes on as before; after a failed *)
(* statement the transaction is aborted and the database refuses every     *)
(* later statement of the Session, which is position "d_aborted".          *)
(***************************************************************************)
\* the record of one batch call of the delta run
DeltaCall(num) ==
    [ fn |-> "get_batch_historical_prices", key |-> num, is_bulk_load |-> FALSE,
      start_date |-> delta_start, end_date |-> delta_end ]

\* lines 97-120 for a batch that got data and whose _upsert_delta_data raises
\* before its commit took effect
delta_raise(kind) ==
    /\ job = "delta" /\ pc = "d_fetch"
    /\ batch_num <= Len(batches(ticker_list))
    /\ \E frame \in get_batch_historical_prices(batches(ticker_list)[batch_num],
                                                 delta_start, delta_end) \ { {} } :
          /\ df' = frame
          /\ slept' = batch_jitter(frame)
    /\ stats' = [ stats EXCEPT !.failed = @ + Len(batches(ticker_list)[batch_num]) ]
    /\ provider_calls' = provider_calls \cup { DeltaCall(batch_num) }
    /\ batch_num' = batch_num + 1
    /\ pc' = IF kind = "database" THEN "d_aborted" ELSE "d_fetch"
    /\ UNCHANGED << clockv, dbv, job, popv, retv, deltav, cachev, result >>

\* lines 93-139 once the transaction is aborted: the provider is still called
\* for every batch; an empty answer is counted as no data, and for a batch
\* with data the first query of _upsert_delta_data (line 156) raises, which
\* is counted the same way; the cache is cleared and the stats are returned
delta_fetch_aborted ==
    /\ job = "delta" /\ pc = "d_aborted"
    /\ IF batch_num > Len(batches(ticker_list))
       THEN /\ \E ok1 \in BOOLEAN, ok2 \in BOOLEAN :
                cache' = clear_pattern(clear_pattern(cache, "prices", ok1), "stock", ok2)
            /\ DeltaReturn(stats)
            /\ UNCHANGED << clockv, dbv, delta_missed, stock_fundamentals >>
       ELSE /\ \E frame \in get_batch_historical_prices(batches(ticker_list)[batch_num],
                                                        delta_start, delta_end) :
                /\ df' = frame
                /\ slept' = batch_jitter(frame)
                /\ delta_missed' =
                      IF frame = {}
                      THEN delta_missed \cup ( SeqSet(batches(ticker_list)[batch_num])
                                               \X ProviderDates(delta_start, delta_end) )
                      ELSE delta_missed
            /\ stats' = [ stats EXCEPT !.failed = @ + Len(batches(ticker_list)[batch_num]) ]
            /\ provider_calls' = provider_calls \cup { DeltaCall(batch_num) }
            /\ batch_num' = batch_num + 1
            /\ UNCHANGED << clockv, dbv, ctlv, popv, retv, ticker_list, delta_start, cachev,
                            result >>

\* a batch of the delta run that is fetched with data and stored
delta_upsert ==
    /\ delta_fetch
    /\ df' # {}
    /\ daily_ohlcv' = upsert_delta_data(tickers, daily_ohlcv, df')

NextDeltaRaise ==
    \/ delta_begin
    \/ delta_fetch
    \/ \E kind \in ExceptionKinds : delta_raise(kind)
    \/ delta_fetch_aborted

SpecDeltaRaise == InitHeal /\ [][NextDeltaRaise]_vars

(***************************************************************************)
(* The market calendar: is_trading_day and get_last_trading_day applied to *)
(* the dates of some years                                                 *)
(***************************************************************************)
MaxYears == 4
CalendarDays == ymd2ord(2022, 1, 1) .. ( ymd2ord(2022 + MaxYears, 1, 1) - 1 )

InitCalendar ==
    /\ hash_randomization = FALSE
    /\ today \in CalendarDays
    /\ tickers = {}
    /\ daily_ohlcv = {}
    /\ population_progress = << >>
    /\ failed_tickers = {}
    /\ next_failed_id = 1
    /\ job = "calendar"
    /\ pc = "call"
    /\ resume = FALSE
    /\ all_tickers = << >>
    /\ completed_batch_numbers = {}
    /\ batch_num = 0
    /\ df = {}
    /\ stats = NoStats
    /\ failed = {}
    /\ cur = 0
    /\ session = {}
    /\ ticker_list = << >>
    /\ delta_start = None
    /\ delta_missed = {}
    /\ cache = {}
    /\ stock_fundamentals = {}
    /\ slept = TRUE
    /\ provider_calls = {}
    /\ result = NoResult

\* is_trading_day(today) and get_last_trading_day(today)
calendar_call ==
    /\ job = "calendar" /\ pc = "call"
    /\ result' = [ job |-> "calendar", check_date |-> today,
                   is_trading_day |-> is_trading_day(today),
                   get_last_trading_day |-> get_last_trading_day(today) ]
    /\ pc' = "done"
    /\ UNCHANGED << clockv, dbv, job, popv, batch_num, df, stats, retv, deltav, cachev, slept,
                    provider_calls >>

NextCalendar == calendar_call

SpecCalendar == InitCalendar /\ [][NextCalendar]_vars

(***************************************************************************)
(* Two jobs writing prices of one ticker at the same time, each with its   *)
(* own Session (SessionLocal(), autoflush off) on a READ COMMITTED         *)
(* database.  populate_all_stocks and daily_delta_sync write with one      *)
(* INSERT ... ON CONFLICT DO UPDATE statement and commit;                  *)
(* retry_failed_tickers looks each row up with db.merge() and writes at    *)
(* db.commit().  Each job has fetched its frame and is about to write; the *)
(* Ticker row exists.  Here job is the set of the running jobs, pc and df  *)
(* are functions over it.                                                  *)
(***************************************************************************)
Writers == { "populate", "delta", "retry" }

\* the frames without a raising row that a job can hold before it writes
WriterFrames(j, t, table) ==
    IF j = "populate"
    THEN get_batch_historical_prices(<< t >>, BulkStart, BulkEnd) \ { {} }
    ELSE IF j = "delta"
    THEN get_batch_historical_prices(<< t >>, delta_start_after(last_db_date(table)), delta_end)
             \ { {} }
    ELSE { f \in get_historical_prices(t, BulkStart, BulkEnd) : f # {} /\ RaisingDates(f) = {} }

\* the rows a job hands to the database for its frame
write_rows(j, frame, tk) ==
    IF j = "populate" THEN rows_to_upsert(frame, tk)
    ELSE IF j = "delta" THEN delta_rows_to_upsert(frame, tk)
    ELSE { retry_row(row) : row \in frame }

same_key(a, b) == a.ticker_id = b.ticker_id /\ a.date = b.date

\* db.merge(obj), bulk_population.py line 350: the Session selects the row of
\* the object's primary key and keeps what it loaded; nothing is written yet
merge_select(table, objs) ==
    { [ obj |-> o, loaded |-> { r \in table : same_key(r, o) } ] : o \in objs }

\* the flush of db.commit(), line 352: an object merge() did not find is
\* INSERTed, and the INSERT raises IntegrityError when its key is stored by now
flush_raises(table, sess) ==
    \E e \in sess : e.loaded = {} /\ \E r \in table : same_key(r, e.obj)

\* the row the flush leaves for one object: the INSERTed object, or the stored
\* row with the columns that merge() changed on the loaded row UPDATEd
flushed_row(table, e) ==
    IF e.loaded = {}
    THEN e.obj
    ELSE LET old == CHOOSE r \in e.loaded : TRUE
             now == CHOOSE r \in table : same_key(r, e.obj)
         IN  [ f \in DOMAIN e.obj |-> IF e.obj[f] # old[f] THEN e.obj[f] ELSE now[f] ]

flush(table, sess) ==
    { r \in table : ~ \E e \in sess : same_key(r, e.obj) }
    \cup { flushed_row(table, e) : e \in sess }

InitConcurrent ==
    \E pair \in { S \in SUBSET Writers : Cardinality(S) = 2 } :
    \E t \in Universe :
    \E stored \in { {} } \cup { { insert_row(Bar(t, FirstDay, v)) } : v \in Vals } :
        /\ hash_randomization = FALSE
        /\ today = FirstDay + 2
        /\ tickers = Universe
        /\ daily_ohlcv = stored
        /\ "delta" \in pair => DeltaNeeded(today, stored)
        /\ population_progress = << >>
        /\ failed_tickers =
              IF "retry" \in pair
              THEN { [ id |-> 1, ticker |-> t, batch_number |-> 1,
                       retry_count |-> 1, status |-> "retrying" ] }
              ELSE {}
        /\ next_failed_id = 2
        /\ job = pair
        /\ pc = [ j \in pair |-> IF j = "retry" THEN "r_merge" ELSE "upsert" ]
        /\ resume = FALSE
        /\ all_tickers = << >>
        /\ completed_batch_numbers = {}
        /\ batch_num = 0
        /\ df \in [ pair -> UNION { WriterFrames(j, t, stored) : j \in pair } ]
        /\ \A j \in pair : df[j] \in WriterFrames(j, t, stored)
        /\ stats = NoStats
        /\ failed = {}
        /\ cur = IF "retry" \in pair THEN 1 ELSE 0
        /\ session = {}
        /\ ticker_list = << >>
        /\ delta_start = IF "delta" \in pair THEN delta_start_after(last_db_date(stored)) ELSE None
        /\ delta_missed = {}
        /\ cache = {}
        /\ stock_fundamentals = {}
        /\ slept = TRUE
        /\ provider_calls = {}
        /\ result = NoResult

\* _insert_batch_data lines 256-270, _upsert_delta_data lines 188-203 and 217:
\* one upsert statement and its commit; the statement waits for a concurrent
\* writer of the same key and then updates or inserts, so it takes effect at
\* one point
concurrent_upsert(j) ==
    /\ j \in job \cap { "populate", "delta" }
    /\ pc[j] = "upsert"
    /\ daily_ohlcv' = on_conflict_do_update(daily_ohlcv, write_rows(j, df[j], tickers))
    /\ pc' = [ pc EXCEPT ![j] = "done" ]
    /\ UNCHANGED << clockv, tickers, population_progress, failed_tickers, next_failed_id, job,
                    popv, batch_num, df, stats, retv, deltav, cachev, slept, provider_calls,
                    result >>

\* retry_failed_tickers lines 339-350: the loop of db.merge() calls
concurrent_merge ==
    /\ "retry" \in job
    /\ pc["retry"] = "r_merge"
    /\ session' = merge_select(daily_ohlcv, write_rows("retry", df["retry"], tickers))
    /\ pc' = [ pc EXCEPT !["retry"] = "r_commit" ]
    /\ UNCHANGED << clockv, dbv, job, popv, batch_num, df, stats, failed, cur, deltav, cachev,
                    slept, provider_calls, result >>

\* line 352, db.commit(): the flush writes the merged objects; when it raises,
\* commit() rolls the transaction back and the handler at lines 361-371 sets
\* the entry's status by its retry count and commits that
concurrent_commit ==
    /\ "retry" \in job
    /\ pc["retry"] = "r_commit"
    /\ IF flush_raises(daily_ohlcv, session)
       THEN /\ failed_tickers' = UpdateEntry(cur,
                  [ Entry(cur) EXCEPT !.status = StatusAfterException(Entry(cur).retry_count) ])
            /\ pc' = [ pc EXCEPT !["retry"] = "raised" ]
            /\ UNCHANGED daily_ohlcv
       ELSE /\ daily_ohlcv' = flush(daily_ohlcv, session)
            /\ pc' = [ pc EXCEPT !["retry"] = "r_delete" ]
            /\ UNCHANGED failed_tickers
    /\ session' = {}
    /\ UNCHANGED << clockv, tickers, population_progress, next_failed_id, job, popv, batch_num,
                    df, stats, failed, cur, deltav, cachev, slept, provider_calls, result >>

\* lines 354-356: the entry leaves the queue
concurrent_delete ==
    /\ "retry" \in job
    /\ pc["retry"] = "r_delete"
    /\ failed_tickers' = failed_tickers \ { Entry(cur) }
    /\ pc' = [ pc EXCEPT !["retry"] = "done" ]
    /\ UNCHANGED << clockv, tickers, daily_ohlcv, population_progress, next_failed_id, job, popv,
                    batch_num, df, stats, retv, deltav, cachev, slept, provider_calls, result >>

NextConcurrent ==
    \/ \E j \in Writers : concurrent_upsert(j)
    \/ concurrent_merge
    \/ concurrent_commit
    \/ concurrent_delete

SpecConcurrent == InitConcurrent /\ [][NextConcurrent]_vars

(***************************************************************************)
(* The scheduler's other jobs, stock_loader.py: the nightly batch update   *)
(* of the active stocks and the weekly trim of old prices.  Each runs to   *)
(* its return between two other job runs.                                  *)
(***************************************************************************)
\* settings.STOCK_HISTORY_YEARS, config.py line 47
RetentionYears == 5

\* get_active_tickers, lines 17-27: the symbols joined with their snapshot row
get_active_tickers(tk, sf) == { t \in tk : \E f \in sf : f.ticker_id = t }

\* a slip: the Ticker table is rebuilt from the symbols of the answer
replace_tickers(tk, data) == DOMAIN data

\* lines 104-120: get or create the Ticker row of every symbol of the answer
get_or_create_tickers(tk, data) == tk \cup DOMAIN data

\* lines 122-191: the snapshot row of every symbol of the answer is updated
\* or created
nightly_fundamentals(sf, data) ==
    { r \in sf : r.ticker_id \notin DOMAIN data }
    \cup { [ ticker_id |-> t, value |-> data[t] ] : t \in DOMAIN data }

\* update_all_stocks_batch(manual_trigger), lines 30-318.  Step 1 stores the
\* snapshots the provider answered for the batches whose commit went through
\* (a failed batch is rolled back, lines 204-208).  Step 2 asks the provider
\* for the prices; the frame it gets is in long format, so reading the second
\* level of its columns (line 254) raises for every ticker, the per-ticker
\* handler counts it, and no price row and no cache key is touched.  Then
\* the screener keys are cleared.  The function returns nothing.
update_all_stocks_batch ==
    /\ job = "idle"
    /\ \E manual_trigger \in BOOLEAN :
        \E active \in { get_active_tickers(tickers, stock_fundamentals) } :
          IF ( ~ manual_trigger /\ ~ is_trading_day(today) ) \/ active = {}
          THEN /\ result' = [ job |-> "nightly", calls |-> {} ]
               /\ UNCHANGED << tickers, cachev >>
          ELSE \E data \in FundamentalsData(sorted(active)), ok \in BOOLEAN :
               /\ tickers' = get_or_create_tickers(tickers, data)
               /\ stock_fundamentals' = nightly_fundamentals(stock_fundamentals, data)
               /\ cache' = clear_pattern(cache, "screener", ok)
               /\ result' =
                     [ job |-> "nightly",
                       calls |-> { [ fn |-> "get_batch_historical_prices", key |-> 1,
                                     is_bulk_load |-> FALSE,
                                     start_date |-> IF manual_trigger THEN today - 5
                                                    ELSE get_last_trading_day(today),
                                     end_date |-> today ] } ]
    /\ provider_calls' = {}
    /\ UNCHANGED << clockv, daily_ohlcv, population_progress, failed_tickers, next_failed_id,
                    ctlv, popv, batch_num, df, stats, retv, deltav, slept >>

\* trim_old_price_data(), lines 321-357: the rows older than the retention
\* period are deleted and the price keys cleared; when the delete raises it
\* is rolled back and the keys stay
trim_old_price_data ==
    /\ job = "idle"
    /\ \E raised \in BOOLEAN, ok \in BOOLEAN :
        \E cutoff_date \in { today - 365 * RetentionYears } :
          IF raised
          THEN /\ result' = [ job |-> "trim", deleted |-> 0 ]
               /\ UNCHANGED << daily_ohlcv, cache >>
          ELSE /\ daily_ohlcv' = { r \in daily_ohlcv : ~ ( r.date < cutoff_date ) }
               /\ cache' = clear_pattern(cache, "prices", ok)
               /\ result' = [ job |-> "trim",
                              deleted |-> Cardinality(daily_ohlcv \ daily_ohlcv') ]
    /\ provider_calls' = {}
    /\ UNCHANGED << clockv, tickers, population_progress, failed_tickers, next_failed_id,
                    ctlv, popv, batch_num, df, stats, retv, deltav, stock_fundamentals, slept >>

\* the jobs take turns, one run each: on the Friday the backfill, the retry
\* processor and the delta sync; on the Sunday the backfill, the retention
\* trim, the fundamentals rotation and the nightly update run by hand
turn(day, last) == job = "idle" /\ today = day /\ result.job = last

NextJobs ==
    \/ ( result.job = "none" /\ populate_begin )
    \/ populate_loop
    \/ populate_fetch
    \/ populate_enqueue
    \/ populate_mark_completed
    \/ ( turn(FirstDay + 2, "populate") /\ retry_begin )
    \/ retry_loop
    \/ retry_fetch
    \/ retry_delete
    \/ ( turn(FirstDay + 2, "retry") /\ delta_begin )
    \/ delta_fetch
    \/ ( turn(FirstDay + 4, "populate") /\ trim_old_price_data )
    \/ ( turn(FirstDay + 4, "trim") /\ fund_begin )
    \/ \E oks \in SUBSET Universe : fund_batch(oks)
    \/ \E ok \in BOOLEAN : fund_return(ok)
    \/ ( turn(FirstDay + 4, "fund") /\ update_all_stocks_batch )

\* empty tables on a Friday, when a backfill that stored Wednesday only
\* leaves the delta sync a day to fetch, or on the Sunday after it, the day
\* whose segment of the fundamentals rotation holds the tickers
InitJobs ==
    \E d \in { FirstDay + 2, FirstDay + 4 } :
        /\ hash_randomization = FALSE
        /\ today = d
        /\ tickers = {}
        /\ daily_ohlcv = {}
        /\ population_progress = << >>
        /\ failed_tickers = {}
        /\ next_failed_id = 1
        /\ job = "idle"
        /\ pc = "idle"
        /\ resume = FALSE
        /\ all_tickers = << >>
        /\ completed_batch_numbers = {}
        /\ batch_num = 0
        /\ df = {}
        /\ stats = NoStats
        /\ failed = {}
        /\ cur = 0
        /\ session = {}
        /\ ticker_list = << >>
        /\ delta_start = None
        /\ delta_missed = {}
        /\ cache = {}
        /\ stock_fundamentals = {}
        /\ slept = TRUE
        /\ provider_calls = {}
        /\ result = NoResult

SpecJobs == InitJobs /\ [][NextJobs]_vars

\* ---------------------------------------------------------------------
\* fundamentals_updater.py, _upsert_fundamentals, column by column
\* ---------------------------------------------------------------------

\* the columns of StockFundamental assigned from the record, lines 162-196;
\* all twenty-eight are assigned the same way, two stand for them
TypedColumns == { "pe_ratio", "sector" }

\* the values a provider puts under a key
ColumnValues(c) == IF c = "pe_ratio" THEN Vals ELSE { MaxVal }

\* additional_data: a dict is the set of its contents, {} the empty dict
Bags == { {}, { MaxVal } }

\* the SQL NULL of the JSONB column
NullBag == { None }

\* the dicts a caller can pass: any keys, a value or None under a typed key
FundRecords ==
    UNION { { [ k \in S \cup B |-> IF k = "additional_data" THEN bag ELSE typed[k] ] :
                typed \in [ S -> UNION { ColumnValues(c) : c \in S } \cup { None } ],
                bag \in Bags } :
            S \in SUBSET TypedColumns, B \in SUBSET { "additional_data" } }

\* dict.get(key, default)
dict_get(d, k, default) == IF k \in DOMAIN d THEN d[k] ELSE default

\* a slip: a column keeps its value when the record has no value for it
snapshot_row_keeps_previous(fundamental, ticker_id, fund_data, now) ==
    [ ticker_id |-> ticker_id,
      fields |-> [ c \in TypedColumns |->
                     IF dict_get(fund_data, c, None) = None /\ fundamental # {}
                     THEN ( CHOOSE r \in fundamental : TRUE ).fields[c]
                     ELSE dict_get(fund_data, c, None) ],
      additional_data |-> dict_get(fund_data, "additional_data", {}),
      last_updated |-> now ]

\* lines 153-201: the row found by the query, or the new one, after every
\* column is assigned from the record
snapshot_row(fundamental, ticker_id, fund_data, now) ==
    [ ticker_id |-> ticker_id,
      fields |-> [ c \in TypedColumns |-> dict_get(fund_data, c, None) ],
      additional_data |-> dict_get(fund_data, "additional_data", {}),
      last_updated |-> now ]

\* _upsert_fundamentals(db, ticker_id, fund_data), lines 143-203: the row of
\* the ticker is queried, created when there is none, assigned and committed;
\* a commit that raises leaves the table as it was once the caller has
\* rolled back (line 112)
upsert_fundamentals_call(ticker_id, fund_data) ==
    /\ job = "idle"
    /\ \E raised \in BOOLEAN :
        \E fundamental \in { { r \in stock_fundamentals : r.ticker_id = ticker_id } } :
          /\ stock_fundamentals' =
                IF raised
                THEN stock_fundamentals
                ELSE ( stock_fundamentals \ fundamental )
                        \cup { snapshot_row(fundamental, ticker_id, fund_data, today) }
          /\ result' = [ job |-> "upsert", ticker_id |-> ticker_id,
                         created |-> ( fundamental = {} ), raised |-> raised ]
    /\ UNCHANGED << clockv, dbv, ctlv, popv, batch_num, df, stats, retv, deltav,
                    cache, slept, provider_calls >>

InitUpsert ==
    /\ hash_randomization = FALSE
    /\ today = FirstDay
    /\ tickers = 1 .. FundBatchSize
    /\ daily_ohlcv = {}
    /\ population_progress = << >>
    /\ failed_tickers = {}
    /\ next_failed_id = 1
    /\ job = "idle"
    /\ pc = "idle"
    /\ resume = FALSE
    /\ all_tickers = << >>
    /\ completed_batch_numbers = {}
    /\ batch_num = 0
    /\ df = {}
    /\ stats = NoStats
    /\ failed = {}
    /\ cur = 0
    /\ session = {}
    /\ ticker_list = << >>
    /\ delta_start = None
    /\ delta_missed = {}
    /\ cache = {}
    /\ stock_fundamentals = {}
    /\ slept = TRUE
    /\ provider_calls = {}
    /\ result = NoResult

NextUpsert ==
    \E ticker_id \in tickers, fund_data \in FundRecords :
        upsert_fundamentals_call(ticker_id, fund_data)

SpecUpsert == InitUpsert /\ [][NextUpsert]_vars

\* ---------------------------------------------------------------------
\* update_fundamentals_daily on the seven days of one week while the
\* backfill adds Ticker rows between the days
\* ---------------------------------------------------------------------

\* the Monday after FirstDay: day 1/7 of the update cycle (line 39)
CycleStart == FirstDay + 5

InitCycle ==
    \E n \in 0 .. MaxList :
        /\ hash_randomization = FALSE
        /\ today = CycleStart
        /\ tickers = 1 .. n
        /\ daily_ohlcv = {}
        /\ population_progress = << >>
        /\ failed_tickers = {}
        /\ next_failed_id = 1
        /\ job = "segments"
        /\ pc = "s_day"
        /\ resume = FALSE
        /\ all_tickers = << >>
        /\ completed_batch_numbers = {}
        /\ batch_num = 0
        /\ df = {}
        /\ stats = NoStats
        /\ failed = {}
        /\ cur = 0
        /\ session = {}
        /\ ticker_list = << >>
        /\ delta_start = None
        /\ delta_missed = {}
        /\ cache = {}
        /\ stock_fundamentals = {}
        /\ slept = TRUE
        /\ provider_calls = {}
        /\ result = [ job |-> "segments", segments |-> << >>, first |-> << >> ]

\* lines 38-61 on the day `today`, the list read from the Ticker table in the
\* order of Ticker.id; result.first keeps the list of the first day and
\* result.segments, by day of the week, the segment; then the next day comes
update_fundamentals_daily_segment ==
    /\ job = "segments" /\ pc = "s_day"
    /\ \E lst \in { sorted(tickers) } :
        /\ all_tickers' = lst
        /\ result' = [ result EXCEPT
                         !.segments =
                            ( weekday(today) :>
                                [ start_idx |-> start_idx(Len(lst), weekday(today)),
                                  end_idx |-> end_idx(Len(lst), weekday(today)),
                                  today_tickers |-> today_tickers(lst, weekday(today)) ] )
                            @@ result.segments,
                         !.first = IF batch_num = 0 THEN lst ELSE @ ]
    /\ batch_num' = batch_num + 1
    /\ pc' = IF batch_num = 6 THEN "s_done" ELSE "s_day"
    /\ today' = today + 1
    /\ UNCHANGED << hash_randomization, dbv, job, resume, completed_batch_numbers, df, stats,
                    retv, deltav, cachev, slept, provider_calls >>

\* bulk_population.py, _insert_batch_data lines 223-238, between two days of
\* the cycle: the Ticker rows of one batch of new symbols are created; the
\* ids come from the sequence of the table, above the ids in use
backfill_adds_tickers ==
    /\ job = "segments" /\ pc = "s_day"
    /\ batch_num > 0
    /\ Cardinality(tickers) + BatchSize <= MaxList
    /\ \E frame \in { { [ ticker |-> t ] :
                          t \in ( Cardinality(tickers) + 1 ) .. ( Cardinality(tickers) + BatchSize ) } } :
          tickers' = insert_batch_tickers(tickers, frame)
    /\ UNCHANGED << clockv, daily_ohlcv, population_progress, failed_tickers, next_failed_id,
                    ctlv, popv, batch_num, df, stats, retv, deltav, cachev, slept,
                    provider_calls, result >>

NextCycle ==
    \/ update_fundamentals_daily_segment
    \/ backfill_adds_tickers

SpecCycle == InitCycle /\ [][NextCycle]_vars

\* ---------------------------------------------------------------------
\* get_price_history called again and again with ranges of the caller's
\* choice while no job writes
\* ---------------------------------------------------------------------

\* the dates a caller asks for, and None for an argument left out
RangeDates == FirstDay .. ( FirstDay + MaxDays )

\* lines 147-151: the defaults of end_date and start_date
default_end_date(end_date, last_trading_day) ==
    IF end_date = None THEN last_trading_day ELSE end_date
default_start_date(start_date, end) ==
    IF start_date = None THEN end - 365 ELSE start_date

\* lines 166-193: the frame of the stored rows of the range, empty for a
\* symbol without Ticker row
query_prices(tk, table, t, start_date, end_date) ==
    IF t \notin tk THEN {} ELSE price_frame(stored_prices(table, t, start_date, end_date))

\* lines 145-207 with the arguments of the caller; result keeps them with
\* the frame returned
get_price_history_range ==
    /\ job = "idle"
    /\ \E last_trading_day \in { get_last_trading_day(today) } :
       \E t \in tickers, use_cache \in BOOLEAN, ok \in BOOLEAN,
          start_arg \in RangeDates \cup { None }, end_arg \in RangeDates \cup { None } :
        \E end_date \in { default_end_date(end_arg, last_trading_day) } :
        \E start_date \in { default_start_date(start_arg, end_date) } :
        \E cached \in { IF use_cache THEN cache_get(cache, "prices", t, ok) ELSE {} } :
        \E frame \in { query_prices(tickers, daily_ohlcv, t, start_date, end_date) } :
            IF cached # {}
            THEN /\ result' = [ job |-> "read", ticker |-> t, calls |-> {}, from_cache |-> TRUE,
                                use_cache |-> use_cache,
                                start_date |-> start_date, end_date |-> end_date,
                                df |-> { x \in cached : x.date >= start_date /\ x.date <= end_date } ]
                 /\ UNCHANGED cache
            ELSE /\ result' = [ job |-> "read", ticker |-> t, calls |-> {}, from_cache |-> FALSE,
                                use_cache |-> use_cache,
                                start_date |-> start_date, end_date |-> end_date,
                                df |-> frame ]
                 /\ cache' = IF use_cache /\ frame # {}
                             THEN cache_set(cache, "prices", t, frame, ok)
                             ELSE cache
    /\ UNCHANGED << clockv, dbv, ctlv, popv, batch_num, df, stats, retv, deltav,
                    stock_fundamentals, slept, provider_calls >>

\* the store after a backfill that got the same trading days for the tickers
\* of one batch; the cache is empty
InitRange ==
    \E ds \in SUBSET { d \in RangeDates : is_trading_day(d) } :
        /\ hash_randomization = FALSE
        /\ today = FirstDay + MaxDays
        /\ tickers = 1 .. BatchSize
        /\ daily_ohlcv = { insert_row(Bar(t, d, 1)) : t \in 1 .. BatchSize, d \in ds }
        /\ population_progress = << >>
        /\ failed_tickers = {}
        /\ next_failed_id = 1
        /\ job = "idle"
        /\ pc = "idle"
        /\ resume = FALSE
        /\ all_tickers = << >>
        /\ completed_batch_numbers = {}
        /\ batch_num = 0
        /\ df = {}
        /\ stats = NoStats
        /\ failed = {}
        /\ cur = 0
        /\ session = {}
        /\ ticker_list = << >>
        /\ delta_start = None
        /\ delta_missed = {}
        /\ cache = {}
        /\ stock_fundamentals = {}
        /\ slept = TRUE
        /\ provider_calls = {}
        /\ result = NoResult

NextRange == get_price_history_range

SpecRange == InitRange /\ [][NextRange]_vars

\* C14: a price read that finds the stored series of the ticker ending before
\* the last trading day calls the provider for the gap and returns the gap's
\* rows with the stored ones
C14_StaleReadFillsTheGap ==
    [][ ( /\ get_price_history
          /\ result'.job = "read"
          /\ ~ result'.from_cache
          /\ stored_prices(daily_ohlcv, result'.ticker, FirstDay, today) # {}
          /\ last_db_date(stored_prices(daily_ohlcv, result'.ticker, FirstDay, today))
                < get_last_trading_day(today) )
        => /\ result'.calls # {}
           /\ \E x \in result'.df : x.date > last_db_date(stored_prices(daily_ohlcv,
                                                   result'.ticker, FirstDay, today))
      ]_vars

\* C15: when a backfill run that committed price rows returns, no prices entry
\* that was in the cache before the run is left (reads happen between runs, so
\* the entries present during the run were all written before its commits)
C15_NoPriceEntrySurvivesTheJob ==
    [][ ( /\ populate_loop
          /\ job' = "idle"
          /\ batch_num > Len(batches(all_tickers))
          /\ stats.records_inserted > 0 )
        => \A e \in cache : e.kind = "prices" => e \notin cache' ]_vars

C18_ProviderNeverRaises ==
    result.job = "provider"
    => /\ result.answer.kind # "raised"
       /\ ( \/ result.request.whole = "error"
            \/ \A t \in SeqSet(result.request.tickers) : result.request.up[t] # "data" )
          => result.answer.kind \in { "none", "empty" }

\* the download of a batch has failed upstream and the method has answered
C18_Witness ==
    /\ result.job = "provider"
    /\ result.request.provider = "yfinance"
    /\ result.request.method = "get_batch_historical_prices"
    /\ result.request.whole = "error"
    /\ result.answer = NoneAnswer

\* C19: a step that issues an upstream request is taken only when a jitter
\* sleep has followed the previous request of the run
C19_JitterBetweenRequests ==
    [][ ( provider_calls' \ provider_calls # {} /\ provider_calls # {} ) => slept ]_vars

\* C20: the ticker set a run assigns to batch number N is the one every
\* earlier run recorded in the checkpoint of batch N
C20_BatchNHasTheSameTickers ==
    job = "populate"
    => \A b \in DOMAIN population_progress \cap DOMAIN batches(all_tickers) :
          SeqSet(batches(all_tickers)[b]) = SeqSet(population_progress[b].ticker_list)

\* C21: a step of the bulk backfill that changes the Ticker table or the price
\* table commits the new Ticker rows of the batch and all its price rows
\* together
C21_TickersAndPricesInOneStep ==
    [][ ( job = "populate" /\ ( tickers' # tickers \/ daily_ohlcv' # daily_ohlcv ) )
        => /\ tickers' = insert_batch_tickers(tickers, df')
           /\ daily_ohlcv' = insert_batch_prices(tickers, daily_ohlcv, df')
           /\ \A t \in tickers' \ tickers : \E r \in daily_ohlcv' : r.ticker_id = t ]_vars

\* C22: a run does not return from inside the processing of a batch: an
\* exception there leaves the checkpoint failed and the loop running
C22_BatchExceptionIsContained ==
    [][ ( job = "populate" /\ pc \in { "p_fetch", "p_complete" } /\ result' # result )
        => ( /\ job' = "populate"
             /\ population_progress'[batch_num].status = "failed" ) ]_vars

\* C23: whatever a batch of the fundamentals job is answered and whichever
\* item the database fails on, the snapshots of all the other answered tickers
\* are stored after the turn of the loop
C23_OneTickerErrorSparesTheOthers ==
    ( job = "fund" /\ pc = "f_batch" /\ batch_num <= Len(fund_batches(ticker_list)) )
    => \A data \in FundamentalsData(fund_batches(ticker_list)[batch_num]) :
         \A n_ok \in 0 .. Cardinality(DOMAIN data) :
            LET o == fund_batch_outcome(fund_batches(ticker_list)[batch_num], data, n_ok,
                                        tickers, Universe, stock_fundamentals, cache, stats)
                stored == { t \in DOMAIN data : [ ticker_id |-> t, value |-> data[t] ] \in o.sf }
            IN  Cardinality(stored) >= Cardinality(DOMAIN data) - 1

C25_LastTradingDayWithinTenSteps ==
    result.job = "calendar"
    => /\ result.get_last_trading_day <= result.check_date
       /\ result.check_date - result.get_last_trading_day <= 10
       /\ is_trading_day(result.get_last_trading_day)
       /\ \A d \in ( result.get_last_trading_day + 1 ) .. result.check_date : ~ is_trading_day(d)

\* the reference date is a Sunday that follows a holiday Friday: the walk
\* goes back three days
C25_Witness ==
    /\ result.job = "calendar"
    /\ weekday(result.check_date) = 6
    /\ result.check_date - result.get_last_trading_day = 3

\* C28: is_trading_day is false exactly on Saturdays, Sundays and the holidays
\* on their conventional dates: New Year's Day, Juneteenth, Independence Day
\* and Christmas observed, the third Monday of January and of February, Good
\* Friday, the last Monday of May, the first Monday of September and the
\* fourth Thursday of November
C28_HolidaysOnConventionalDates ==
    LET Conventional(y) ==
            { nearest_workday(ymd2ord(y, 1, 1)),
              OnOrAfterWeekday(ymd2ord(y, 1, 1), 0) + 14,
              OnOrAfterWeekday(ymd2ord(y, 2, 1), 0) + 14,
              EasterSunday(y) - 2,
              OnOrAfterWeekday(ymd2ord(y, 5, 25), 0),
              nearest_workday(ymd2ord(y, 6, 19)),
              nearest_workday(ymd2ord(y, 7, 4)),
              OnOrAfterWeekday(ymd2ord(y, 9, 1), 0),
              OnOrAfterWeekday(ymd2ord(y, 11, 1), 3) + 21,
              nearest_workday(ymd2ord(y, 12, 25)) }
        closed(d) ==
            \/ weekday(d) >= 5
            \/ d \in ( Conventional(YearOf(d) - 1) \cup Conventional(YearOf(d))
                          \cup Conventional(YearOf(d) + 1) )
    IN  result.job = "calendar" => ( result.is_trading_day <=> ~ closed(result.check_date) )

\* C27: a run with resume=False goes through to the last batch and calls the
\* provider for every batch, whatever checkpoints it found
C27_FreshRunProcessesEveryBatch ==
    ( PopulateRan /\ ~ result.resume )
    => /\ result.finished
       /\ FetchedBatches = 1 .. result.stats.total_batches

\* C29: while a run is at batch N, every batch before N has a checkpoint with
\* a terminal status, so the checkpoint of batch N is the only one the run may
\* have left in_progress
C29_EarlierCheckpointsAreTerminal ==
    job = "populate"
    => \A b \in 1 .. ( batch_num - 1 ) :
          /\ b \in DOMAIN population_progress
          /\ population_progress[b].status \in { "completed", "failed" }

\* the provider is about to be called for batch 2, whose checkpoint is
\* in_progress, after batch 1 failed in the same run
C29_Witness ==
    /\ job = "populate" /\ pc = "p_fetch" /\ batch_num = 2
    /\ 1 \notin completed_batch_numbers
    /\ population_progress[1].status = "failed"
    /\ population_progress[2].status = "in_progress"

\* C30: every provider call of a daily_delta_sync run asks for the range from
\* the day after the latest date stored when the run began to the last trading
\* day, with start <= end, in daily mode (is_bulk_load False), and every
\* provider call of populate_all_stocks is made in bulk mode.  The start is
\* fixed when the run begins and is not changed by the rows the run stores.
C30_DeltaCallsAskForTheMissingRange ==
    [][ /\ ( job = "idle" /\ job' = "delta" )
           => /\ last_db_date(daily_ohlcv) # None
              /\ delta_start' = last_db_date(daily_ohlcv) + 1
        /\ ( job = "delta" /\ job' = "delta" ) => delta_start' = delta_start
        /\ job = "delta"
           => \A c \in provider_calls' \ provider_calls :
                 /\ c.start_date = delta_start
                 /\ c.end_date = get_last_trading_day(today)
                 /\ c.start_date <= c.end_date
                 /\ c.is_bulk_load = FALSE
        /\ job = "populate"
           => \A c \in provider_calls' \ provider_calls : c.is_bulk_load = TRUE
      ]_vars

\* the second batch call of a delta run whose first batch already stored rows
\* of the requested range, so the latest stored date has moved past the start
C30_Witness ==
    /\ job = "delta"
    /\ \E c \in provider_calls :
          /\ c.key = 2
          /\ c.is_bulk_load = FALSE
          /\ c.start_date = delta_start
          /\ c.start_date < c.end_date
          /\ last_db_date(daily_ohlcv) >= c.start_date

\* C26: when two jobs that ran at the same time have both finished writing,
\* neither write raised, and every (ticker, date) both wrote has exactly one
\* stored row, equal to the row one of the two jobs wrote
C26_ConcurrentWritersLastWins ==
    ( \A j \in job : pc[j] \in { "done", "raised" } )
    => /\ \A j \in job : pc[j] # "raised"
       /\ \A j1 \in job : \A j2 \in job \ { j1 } :
             \A a \in write_rows(j1, df[j1], tickers) :
                ( \E b \in write_rows(j2, df[j2], tickers) : same_key(a, b) )
                => /\ Cardinality({ r \in daily_ohlcv : same_key(r, a) }) = 1
                   /\ \E r \in daily_ohlcv :
                         /\ same_key(r, a)
                         /\ r \in write_rows(j1, df[j1], tickers)
                                 \cup write_rows(j2, df[j2], tickers)

\* C31: while a delta run has batches left, whatever happened to its earlier
\* batches, the next batch can be fetched with data and stored; and no step
\* of a delta run writes a FailedTicker row or a PopulationProgress row
C31_FailedDeltaBatchDoesNotStopTheJob ==
    /\ [] ( ( job = "delta" /\ batch_num <= Len(batches(ticker_list)) )
            => ENABLED delta_upsert )
    /\ [][ job = "delta"
           => /\ failed_tickers' = failed_tickers
              /\ population_progress' = population_progress ]_vars

\* C32: a delta run leaves the Ticker table as it found it, asks the provider
\* only for tickers that have a Ticker row, stores price rows of such tickers
\* only, and from any frame, whatever tickers it names, keeps only the rows
\* of tickers that have a Ticker row
C32_DeltaLeavesTheTickerTable ==
    [][ ( job' = "delta" )
        => /\ tickers' = tickers
           /\ SeqSet(ticker_list') \subseteq tickers'
           /\ \A c \in provider_calls' :
                 SeqSet(batches(ticker_list')[c.key]) \subseteq tickers'
           /\ \A r \in daily_ohlcv' \ daily_ohlcv : r.ticker_id \in tickers'
           /\ \A frame \in get_batch_historical_prices([ i \in 1 .. NumTickers |-> i ],
                                                        delta_start', delta_end) :
                 { r.ticker_id : r \in delta_rows_to_upsert(frame, tickers') } \subseteq tickers'
      ]_vars

\* a delta run that has stored rows while one ticker of the universe has no
\* Ticker row
C32_Witness ==
    /\ job = "delta"
    /\ tickers # Universe
    /\ \E c \in provider_calls : c.key = 1
    /\ \E r \in daily_ohlcv : r.date >= delta_start

\* C33: a retry run selects exactly the entries that are pending with fewer
\* than three retries when it begins; an attempt (the step that counts a
\* retry) is made for a selected entry that has not been attempted in this
\* run, and a run that returns has attempted them all; the run calls the
\* provider through the single-symbol call only; and no step of any job
\* changes or removes an entry in status permanent_failure
C33_OnlySelectedEntriesOnce ==
    [][ /\ ( job = "idle" /\ job' = "retry" )
           => failed' = { e.id : e \in { x \in failed_tickers :
                                            x.status = "pending" /\ x.retry_count < 3 } }
        /\ ( job = "retry" /\ job' = "retry" )
           => /\ failed' \subseteq failed
              /\ \A e \in failed_tickers :
                    \A n \in failed_tickers' :
                       ( n.id = e.id /\ n.retry_count # e.retry_count )
                       => /\ e.id \in failed \ failed'
                          /\ n.retry_count = e.retry_count + 1
                          /\ cur' = e.id
              /\ \A c \in provider_calls' \ provider_calls :
                    c.fn = "get_historical_prices" /\ c.key = Entry(cur).ticker
        /\ ( job = "retry" /\ job' = "idle" /\ result'.job = "retry" ) => failed = {}
        /\ \A e \in failed_tickers : e.status = "permanent_failure" => e \in failed_tickers'
      ]_vars

\* a retry run attempting one entry while another entry of the queue is a
\* permanent failure
C33_Witness ==
    /\ job = "retry"
    /\ pc = "r_fetch"
    /\ failed_tickers # {}
    /\ \E e \in failed_tickers : e.status = "permanent_failure" /\ e.id # cur

\* C34: in every step a PopulationProgress row stays in the table, and its
\* status either stays or goes from in_progress to completed or to failed;
\* a completed row is never changed
C34_CheckpointStatusOnlyMovesForward ==
    [][ \A b \in DOMAIN population_progress :
           /\ b \in DOMAIN population_progress'
           /\ population_progress'[b].status # population_progress[b].status
              => /\ population_progress[b].status = "in_progress"
                 /\ population_progress'[b].status \in { "completed", "failed" }
           /\ population_progress[b].status = "completed"
              => population_progress'[b] = population_progress[b]
      ]_vars

\* a run without resume that reaches a batch whose checkpoint of an earlier
\* run is completed, while another checkpoint is failed
C34_Witness ==
    /\ job = "populate"
    /\ pc = "p_loop"
    /\ resume = FALSE
    /\ batch_num \in DOMAIN population_progress
    /\ population_progress[batch_num].status = "completed"
    /\ \E b \in DOMAIN population_progress : population_progress[b].status = "failed"

\* C35: no step of the bulk backfill, the retry processor, the delta sync, the
\* fundamentals rotation, the nightly update or the retention trim removes a
\* symbol from the Ticker table; the table holds one row per symbol, so the
\* set of symbols only grows
C35_TickerSymbolsOnlyGrow ==
    [][ tickers \subseteq tickers' ]_vars

\* the nightly update has run past its early returns and stored snapshots
\* while the Ticker table and the price table hold rows
C35_Witness ==
    /\ job = "idle"
    /\ result.job = "nightly"
    /\ result.calls # {}
    /\ tickers # {}
    /\ daily_ohlcv # {}
    /\ get_active_tickers(tickers, stock_fundamentals) # tickers

C37_FirstDayTickersSelectedOnce ==
    pc = "s_done" /\ result.job = "segments" /\ "first" \in DOMAIN result
    => \A t \in SeqSet(result.first) :
          Cardinality({ d \in DOMAIN result.segments :
                          t \in SeqSet(result.segments[d].today_tickers) }) = 1

\* the sum of len(ticker_list) and of records_inserted over the checkpoints B
RECURSIVE sum_batch_sizes(_, _)
sum_batch_sizes(progress, B) ==
    IF B = {} THEN 0
    ELSE Len(progress[MinOf(B)].ticker_list) + sum_batch_sizes(progress, B \ { MinOf(B) })

RECURSIVE sum_records_inserted(_, _)
sum_records_inserted(progress, B) ==
    IF B = {} THEN 0
    ELSE progress[MinOf(B)].records_inserted + sum_records_inserted(progress, B \ { MinOf(B) })

\* C38: when populate_all_stocks returns after the loop over all batches,
\* completed_batches + failed_batches = total_batches, failed_tickers is the
\* sum of the sizes of the batches this run marked failed, records_inserted
\* is the sum of records_inserted of the checkpoints this run completed, and
\* every batch skipped by resume has a completed checkpoint and is counted in
\* completed_batches
C38_ReturnedStatisticsAddUp ==
    ( result.job = "populate" /\ result.finished )
    => \E run \in { ( 1 .. result.stats.total_batches ) \ result.completed_at_start } :
       \E skipped \in { ( 1 .. result.stats.total_batches ) \cap result.completed_at_start } :
        /\ run \cup skipped \subseteq DOMAIN population_progress
        /\ result.stats.completed_batches + result.stats.failed_batches
              = result.stats.total_batches
        /\ result.stats.failed_batches
              = Cardinality({ b \in run : population_progress[b].status = "failed" })
        /\ result.stats.failed_tickers
              = sum_batch_sizes(population_progress,
                                { b \in run : population_progress[b].status = "failed" })
        /\ result.stats.records_inserted
              = sum_records_inserted(population_progress,
                                     { b \in run : population_progress[b].status = "completed" })
        /\ \A b \in skipped : population_progress[b].status = "completed"
        /\ result.stats.completed_batches
              = Cardinality(skipped)
                + Cardinality({ b \in run : population_progress[b].status = "completed" })

\* a resumed run has returned after the loop with a batch skipped and the
\* other batch marked failed, its tickers counted
C38_Witness ==
    /\ result.job = "populate"
    /\ result.finished
    /\ result.resume
    /\ result.completed_at_start # {}
    /\ result.stats.completed_batches = 1
    /\ result.stats.failed_batches = 1
    /\ result.stats.failed_tickers > 0

\* C39: on an unchanged store, after any earlier calls with any ranges,
\* get_price_history with use_cache=True returns for the requested range the
\* rows that get_price_history with use_cache=False returns for it
C39_CachedReadEqualsUncachedRead ==
    [][ ( result'.job = "read" /\ result'.use_cache )
        => result'.df = query_prices(tickers, daily_ohlcv, result'.ticker,
                                     result'.start_date, result'.end_date) ]_vars

====
